---- MODULE Spec2Model ----
(***************************************************************************)
(* A model of the e-paper display helpers of coderberry/epaper-pi-zero-2w: *)
(*   - the example packers image_to_bytes / image_to_epd_bytes             *)
(*     (examples/01..06),                                                  *)
(*   - EPDCanvas / LandscapeEPDCanvas (examples/epd_helper.py,             *)
(*     examples/landscape_helper.py),                                      *)
(*   - the text layout of LandscapeEPDCanvas.render_text / _wrap_text,     *)
(*   - the Flask display server (examples/display_server.py).              *)
(*                                                                         *)
(* Python lists are modelled as functions over 0..n-1 so that every index  *)
(* expression of the source is kept as written.  The panel is scaled down: *)
(* EPD_WIDTH x EPD_HEIGHT stands for the 122 x 250 panel and keeps what    *)
(* matters to the packing and the rotation: it is higher than wide, its    *)
(* width is not a multiple of 8 and neither is its pixel count.            *)
(*                                                                         *)
(* epd_gui.py and epd_2inch13.py are not part of the sources at hand: the  *)
(* pixel store of EPD_GUI (clear, set_pixel, img) is modelled from the     *)
(* specification's sections 4.1 and 4.3.                                   *)
(***************************************************************************)
EXTENDS Integers, Sequences, FiniteSets, TLC

(***************************************************************************)
(* Bounds of the model.                                                    *)
(***************************************************************************)
\* physical panel width in pixels (122 on the device)
EPD_WIDTH == 9
\* physical panel height in pixels (250 on the device)
EPD_HEIGHT == 10
\* black pixels an example script draws on its image before packing
MaxBlack == 1
\* words and separators a text handed to render_text is made of
MaxTokens == 3

(***************************************************************************)
(* Colours.  epd_helper.py:67 "white (0xFF) or black (0x00)"; a mode '1'   *)
(* PIL image holds 0 for black and 255 for white.                          *)
(***************************************************************************)
WHITE == 255
BLACK == 0

\* rotation tags of epd_gui (landscape_helper.py:7 imports ROTATE_90)
ROTATE_0 == "ROTATE_0"
ROTATE_90 == "ROTATE_90"

(***************************************************************************)
(* Bytes.  The source uses |, ^, >> on ints that stay within 0..255.       *)
(***************************************************************************)
Pow2(k) == 2 ^ k

\* bit k (0 = least significant) of byte b
Bit(b, k) == (b \div Pow2(k)) % 2

\* v >> j
Shr(v, j) == v \div Pow2(j)

RECURSIVE BitsCombine(_, _, _, _)
\* the byte whose bit k is op[bit k of a][bit k of b], for bits k..7
BitsCombine(op, a, b, k) ==
    IF k > 7 THEN 0
    ELSE op[Bit(a, k)][Bit(b, k)] * Pow2(k) + BitsCombine(op, a, b, k + 1)

\* a | b
BitOr(a, b) ==
    BitsCombine([p \in {0, 1} |-> [q \in {0, 1} |-> IF p = 1 \/ q = 1 THEN 1 ELSE 0]], a, b, 0)

\* a ^ b
BitXor(a, b) ==
    BitsCombine([p \in {0, 1} |-> [q \in {0, 1} |-> IF p # q THEN 1 ELSE 0]], a, b, 0)

\* len() of a list held as a function over 0..n-1
PyLen(f) == Cardinality(DOMAIN f)

\* the empty list
EmptyList == [i \in {} |-> 0]

\* number of values of range(0, n, step)
RangeCount(n, step) == (n + step - 1) \div step

(***************************************************************************)
(* The example packers.  The same loop is written out in 01_hello_world.py *)
(* (lines 40-49), 02_shapes.py (57-65), 03_display_image.py (23-34),       *)
(* 04_clock.py (15-25), 05_system_info.py (90-100) and                     *)
(* 06_weather_template.py (112-122).                                       *)
(***************************************************************************)
RECURSIVE PackByteLsbFirst(_, _, _, _)
\* PackByte with the bits of a byte filled from the least significant one:
\* byte |= (0x01 << j)
PackByteLsbFirst(pixels, i, j, byte) ==
    IF j >= 8 THEN byte
    ELSE PackByteLsbFirst(pixels, i, j + 1,
                          IF i + j < PyLen(pixels) /\ pixels[i + j] = 0
                          THEN BitOr(byte, Pow2(j))
                          ELSE byte)

RECURSIVE PackByte(_, _, _, _)
\* for j in range(8): if i + j < len(pixels) and pixels[i + j] == 0:
\*                        byte |= (0x80 >> j)
PackByte(pixels, i, j, byte) ==
    IF j >= 8 THEN byte
    ELSE PackByte(pixels, i, j + 1,
                  IF i + j < PyLen(pixels) /\ pixels[i + j] = 0
                  THEN BitOr(byte, Shr(128, j))
                  ELSE byte)

\* image_to_bytes without the final inversion: img_bytes.append(byte)
image_to_bytes_NoInvert(pixels) ==
    [k \in 0..(RangeCount(PyLen(pixels), 8) - 1) |-> PackByte(pixels, 8 * k, 0, 0)]

\* for i in range(0, len(pixels), 8): ... img_bytes.append(byte ^ 0xFF)
image_to_bytes(pixels) ==
    [k \in 0..(RangeCount(PyLen(pixels), 8) - 1) |->
        BitXor(PackByte(pixels, 8 * k, 0, 0), 255)]

\* list(image.getdata()) of a width x height image: row-major, index y*width + x
FlatIndex(x, y) == y * EPD_WIDTH + x


(***************************************************************************)
(* EPDCanvas and LandscapeEPDCanvas.  A canvas is a record: rotate and img *)
(* are gui.rotate and gui.img, width and height the logical dimensions,    *)
(* raised tells that a call on it raised an exception.                     *)
(***************************************************************************)
\* bytes of gui.img: ceil(EPD_WIDTH / 8) * EPD_HEIGHT (4000 on the device)
ImgSize == ((EPD_WIDTH + 7) \div 8) * EPD_HEIGHT

\* self.width = 250: the physical height
LandscapeWidth == EPD_HEIGHT

\* self.height = 122: the physical width
LandscapeHeight == EPD_WIDTH

\* EPDCanvas.__init__
EPDCanvas ==
    [rotate |-> ROTATE_0, width |-> EPD_WIDTH, height |-> EPD_HEIGHT,
     img |-> [i \in 0..(ImgSize - 1) |-> WHITE], raised |-> FALSE]

\* LandscapeEPDCanvas.__init__ without the swap of the dimensions
LandscapeEPDCanvas_Unswapped == [EPDCanvas EXCEPT !.rotate = ROTATE_90]

\* LandscapeEPDCanvas.__init__
LandscapeEPDCanvas ==
    [EPDCanvas EXCEPT !.rotate = ROTATE_90,
                      !.width = LandscapeWidth, !.height = LandscapeHeight]

\* the rotation transform of EPD_GUI.set_pixel: logical (x, y) to physical
Transform(rotate, x, y) ==
    IF rotate = ROTATE_90 THEN <<EPD_WIDTH - 1 - y, x>> ELSE <<x, y>>

\* column-major packing: byte index of physical pixel (px, py)
ByteIndex(px, py) == py + (px \div 8) * EPD_HEIGHT

\* bit of that byte, 7 = most significant
BitIndex(px) == 7 - (px % 8)

\* EPD_GUI.set_pixel: an unchecked write of one bit of gui.img; list indexing
\* as Python does it (a negative index counts from the end, an index outside
\* the list raises IndexError)
gui_set_pixel(c, x, y, color) ==
    LET p == Transform(c.rotate, x, y)
        addr == ByteIndex(p[1], p[2])
        mask == Pow2(BitIndex(p[1]))
        n == PyLen(c.img)
    IN  IF addr >= n \/ addr < 0 - n
        THEN [c EXCEPT !.raised = TRUE]
        ELSE LET a == IF addr < 0 THEN addr + n ELSE addr
                 old == Bit(c.img[a], BitIndex(p[1]))
             IN  [c EXCEPT !.img[a] = IF color = BLACK
                                      THEN @ - old * mask
                                      ELSE @ + (1 - old) * mask]

\* the colour gui.img holds for logical pixel (x, y) (the codec's inverse)
get_pixel(c, x, y) ==
    LET p == Transform(c.rotate, x, y)
    IN  IF Bit(c.img[ByteIndex(p[1], p[2])], BitIndex(p[1])) = 1
        THEN WHITE ELSE BLACK

\* EPD_GUI.clear(color): every byte of gui.img is set to color
gui_clear(c, color) == [c EXCEPT !.img = [i \in DOMAIN c.img |-> color]]

\* EPDCanvas.clear
clear(c, color) == gui_clear(c, color)

\* the bounds test with "0 < x": column 0 is left out
InBounds_ExclusiveZero(c, x, y) == 0 < x /\ x < c.width /\ 0 <= y /\ y < c.height

\* the bounds test with "x <= self.width": one column too many
InBounds_Inclusive(c, x, y) == 0 <= x /\ x <= c.width /\ 0 <= y /\ y < c.height

\* the bounds test of EPDCanvas.pixel
InBounds(c, x, y) == 0 <= x /\ x < c.width /\ 0 <= y /\ y < c.height

\* EPDCanvas.pixel
pixel(c, x, y, color) ==
    IF InBounds(c, x, y) THEN gui_set_pixel(c, x, y, color) ELSE c

(***************************************************************************)
(* Strings.  A Python str is a sequence of one-character strings; s[:n]    *)
(* and s[:-1] are prefixes, str.split and str.strip work on the whitespace *)
(* characters of the alphabet.                                             *)
(***************************************************************************)
IsSpace(ch) == ch \in {" ", "\n"}

\* s[:n] for n >= 0
PyPrefix(s, n) == SubSeq(s, 1, IF n < Len(s) THEN n ELSE Len(s))

RECURSIVE LStrip(_)
LStrip(s) == IF s # <<>> /\ IsSpace(Head(s)) THEN LStrip(Tail(s)) ELSE s

RECURSIVE RStrip(_)
RStrip(s) ==
    IF s # <<>> /\ IsSpace(s[Len(s)]) THEN RStrip(PyPrefix(s, Len(s) - 1)) ELSE s

\* str.strip()
Strip(s) == RStrip(LStrip(s))

RECURSIVE SplitOn(_, _, _, _)
\* str.split(sep) for a one-character sep: parts so far, part being read
SplitOn(s, sep, parts, cur) ==
    IF s = <<>> THEN Append(parts, cur)
    ELSE IF Head(s) = sep THEN SplitOn(Tail(s), sep, Append(parts, cur), <<>>)
    ELSE SplitOn(Tail(s), sep, parts, Append(cur, Head(s)))

\* text.split('\n')
SplitLines(s) == SplitOn(s, "\n", <<>>, <<>>)

RECURSIVE SplitWs(_, _, _)
\* str.split(): runs of whitespace separate the words, no empty word
SplitWs(s, parts, cur) ==
    IF s = <<>> THEN (IF cur = <<>> THEN parts ELSE Append(parts, cur))
    ELSE IF IsSpace(Head(s))
         THEN SplitWs(Tail(s), IF cur = <<>> THEN parts ELSE Append(parts, cur), <<>>)
         ELSE SplitWs(Tail(s), parts, Append(cur, Head(s)))

Split(s) == SplitWs(s, <<>>, <<>>)

RECURSIVE Join(_, _)
\* sep.join(words)
Join(words, sep) ==
    IF words = <<>> THEN <<>>
    ELSE IF Len(words) = 1 THEN words[1]
    ELSE words[1] \o sep \o Join(Tail(words), sep)

\* "..."
Ellipsis == <<".", ".", ".">>

\* whether s ends in "..."
EndsWithEllipsis(s) == Len(s) >= 3 /\ SubSeq(s, Len(s) - 2, Len(s)) = Ellipsis

(***************************************************************************)
(* The font (PIL ImageFont, an external collaborator).  Its metrics are    *)
(* additive: every character advances by one pixel, a non-empty string is  *)
(* font_size pixels high.  Its glyphs cover the whole cell of every        *)
(* character that is not a space.                                          *)
(***************************************************************************)
\* bbox[2] - bbox[0] of font.getbbox(s)
Measure(s) == Len(s)

\* bbox[3] - bbox[1] of font.getbbox(s)
MeasureHeight(s, font_size) == IF s = <<>> THEN 0 ELSE font_size

\* whether draw.text((0, 0), s) makes pixel (tx, ty) of text_img black
GlyphBlack(s, font_size, tx, ty) ==
    /\ 0 <= tx /\ tx < Len(s)
    /\ 0 <= ty /\ ty < MeasureHeight(s, font_size)
    /\ ~IsSpace(s[tx + 1])

(***************************************************************************)
(* LandscapeEPDCanvas._wrap_text                                           *)
(***************************************************************************)
\* no shortening of a first word that is too wide
ShortenWord_Unshortened(current_line, max_width) == current_line

RECURSIVE ShortenWord(_, _)
\* while len(current_line) > 3: drop the last character, stop when the rest
\* followed by "..." fits
ShortenWord(current_line, max_width) ==
    IF Len(current_line) > 3
    THEN LET shorter == PyPrefix(current_line, Len(current_line) - 1)
             test == shorter \o Ellipsis
         IN  IF Measure(test) <= max_width THEN test
             ELSE ShortenWord(shorter, max_width)
    ELSE current_line

\* the body of "for word in words" with a test line that fits only when it
\* is narrower than max_width
WrapWord_StrictFit(lines, current_line, word, max_width) ==
    LET test_line == current_line \o (IF current_line # <<>> THEN <<" ">> ELSE <<>>) \o word
    IN  IF Measure(test_line) < max_width THEN <<lines, test_line>>
        ELSE IF current_line # <<>> THEN <<Append(lines, current_line), word>>
        ELSE IF Measure(word) > max_width THEN <<lines, ShortenWord(word, max_width)>>
        ELSE <<lines, word>>

\* the body of "for word in words": the new <<lines, current_line>>
WrapWord(lines, current_line, word, max_width) ==
    LET test_line == current_line \o (IF current_line # <<>> THEN <<" ">> ELSE <<>>) \o word
    IN  IF Measure(test_line) <= max_width THEN <<lines, test_line>>
        ELSE IF current_line # <<>> THEN <<Append(lines, current_line), word>>
        ELSE IF Measure(word) > max_width THEN <<lines, ShortenWord(word, max_width)>>
        ELSE <<lines, word>>

RECURSIVE WrapWords(_, _, _, _)
\* "for word in words" from the first of words on
WrapWords(lines, current_line, words, max_width) ==
    IF words = <<>> THEN <<lines, current_line>>
    ELSE LET r == WrapWord(lines, current_line, Head(words), max_width)
         IN  WrapWords(r[1], r[2], Tail(words), max_width)

\* the body of "for paragraph in paragraphs" without the append of the last
\* line of the paragraph
WrapParagraph_DropsLast(lines, paragraph, max_width) ==
    IF Strip(paragraph) = <<>> THEN Append(lines, <<>>)
    ELSE WrapWords(lines, <<>>, Split(paragraph), max_width)[1]

\* the body of "for paragraph in paragraphs": the new lines
WrapParagraph(lines, paragraph, max_width) ==
    IF Strip(paragraph) = <<>> THEN Append(lines, <<>>)
    ELSE LET r == WrapWords(lines, <<>>, Split(paragraph), max_width)
         IN  IF r[2] # <<>> THEN Append(r[1], r[2]) ELSE r[1]

RECURSIVE WrapParagraphs(_, _, _)
WrapParagraphs(lines, paragraphs, max_width) ==
    IF paragraphs = <<>> THEN lines
    ELSE WrapParagraphs(WrapParagraph(lines, Head(paragraphs), max_width),
                        Tail(paragraphs), max_width)

_wrap_text(text, max_width) == WrapParagraphs(<<>>, SplitLines(text), max_width)

(***************************************************************************)
(* EPDCanvas.text: the string is rendered to a small image text_img of     *)
(* (text_width + 4) x (text_height + 4) pixels and its black pixels are    *)
(* copied with self.pixel.                                                 *)
(***************************************************************************)
RECURSIVE BlitRow(_, _, _, _, _, _, _, _)
\* "for tx in range(text_img.width)" in row ty of text_img, from column tx on
BlitRow(c, x, y, text_str, font_size, iw, ty, tx) ==
    IF tx >= iw THEN c
    ELSE IF GlyphBlack(text_str, font_size, tx, ty)
    THEN LET c2 == pixel(c, x + tx, y + ty, BLACK)
         IN  IF c2.raised THEN c2
             ELSE BlitRow(c2, x, y, text_str, font_size, iw, ty, tx + 1)
    ELSE BlitRow(c, x, y, text_str, font_size, iw, ty, tx + 1)

RECURSIVE BlitFrom(_, _, _, _, _, _, _, _)
\* "for ty in range(text_img.height)" over the iw x ih pixels of text_img,
\* from row ty on
BlitFrom(c, x, y, text_str, font_size, iw, ih, ty) ==
    IF ty >= ih THEN c
    ELSE LET c2 == BlitRow(c, x, y, text_str, font_size, iw, ty, 0)
         IN  IF c2.raised THEN c2
             ELSE BlitFrom(c2, x, y, text_str, font_size, iw, ih, ty + 1)

text(c, x, y, text_str, font_size) ==
    BlitFrom(c, x, y, text_str, font_size,
             Measure(text_str) + 4, MeasureHeight(text_str, font_size) + 4, 0)

(***************************************************************************)
(* LandscapeEPDCanvas.render_text.  line_spacing is a ratio <<num, den>>;  *)
(* the default 1.2 is <<12, 10>> (int(h * 1.2) in floating point equals    *)
(* (h * 12) \div 10 for every height h of the model).                      *)
(***************************************************************************)
\* the loop leaving the line as it is when "..." does not fit
EllipsisLoop_KeepsLine(last_line, available_width) ==
    IF Measure(last_line \o Ellipsis) <= available_width
    THEN last_line \o Ellipsis
    ELSE last_line

RECURSIVE EllipsisLoop_ByCharacter(_, _)
\* the loop removing one trailing character per pass, down to 3 characters
EllipsisLoop_ByCharacter(last_line, available_width) ==
    IF Measure(last_line \o Ellipsis) <= available_width \/ Len(last_line) <= 3
    THEN last_line \o Ellipsis
    ELSE EllipsisLoop_ByCharacter(PyPrefix(last_line, Len(last_line) - 1), available_width)

RECURSIVE EllipsisLoop(_, _)
\* the "while True" loop: the text that replaces wrapped_lines[-1]
EllipsisLoop(last_line, available_width) ==
    LET test_line == last_line \o Ellipsis
        words == Split(last_line)
        keep == IF Len(last_line) - 3 > 0 THEN Len(last_line) - 3 ELSE 0
    IN  IF Measure(test_line) <= available_width THEN test_line
        ELSE IF Len(words) <= 1 THEN PyPrefix(last_line, keep) \o Ellipsis
        ELSE EllipsisLoop(Join(PyPrefix(words, Len(words) - 1), <<" ">>), available_width)

\* int(height * line_spacing)
LineHeight(font_size, line_spacing) ==
    (MeasureHeight(<<"A", "y">>, font_size) * line_spacing[1]) \div line_spacing[2]

VOffset(c, align_v, margin, total_text_height) ==
    IF align_v = "top" THEN margin
    ELSE IF align_v = "bottom" THEN c.height - total_text_height - margin
    ELSE (c.height - total_text_height) \div 2

\* right alignment that forgets the margin
HOffset_RightNoMargin(c, align_h, margin, line_width) ==
    IF align_h = "left" THEN margin
    ELSE IF align_h = "right" THEN c.width - line_width
    ELSE (c.width - line_width) \div 2

HOffset(c, align_h, margin, line_width) ==
    IF align_h = "left" THEN margin
    ELSE IF align_h = "right" THEN c.width - line_width - margin
    ELSE (c.width - line_width) \div 2

RECURSIVE DrawLines(_, _, _, _, _, _, _, _)
\* "for i, line in enumerate(wrapped_lines)" from line i (0-based) on
DrawLines(c, wrapped_lines, i, font_size, align_h, margin, v_offset, line_height) ==
    IF i >= Len(wrapped_lines) THEN c
    ELSE LET line == wrapped_lines[i + 1]
             h_offset == HOffset(c, align_h, margin, Measure(line))
             y_pos == v_offset + (i * line_height)
             c2 == text(c, h_offset, y_pos, line, font_size)
         IN  IF c2.raised THEN c2
             ELSE DrawLines(c2, wrapped_lines, i + 1, font_size, align_h, margin,
                            v_offset, line_height)

\* the test without the strip: "if not text"
IsBlankText_NoStrip(text_in) == text_in = <<>>

\* "if not text or not text.strip()"
IsBlankText(text_in) == text_in = <<>> \/ Strip(text_in) = <<>>

\* the dictionary render_text returns
Result(lines, truncated, text_height) ==
    [lines |-> lines, truncated |-> truncated, text_height |-> text_height]

\* render_text: [canvas: the canvas afterwards, raised: whether the call
\* raised, result: the dictionary returned, wrapped_lines: the lines drawn]
render_text(c, text_in, font_size, align_h_in, align_v_in, margin, line_spacing, max_lines) ==
    LET align_h == IF align_h_in \in {"left", "center", "right"} THEN align_h_in ELSE "center"
        align_v == IF align_v_in \in {"top", "middle", "bottom"} THEN align_v_in ELSE "middle"
        available_width == c.width - (2 * margin)
        wrapped == _wrap_text(text_in, available_width)
        over == Len(wrapped) > max_lines
        kept == PyPrefix(wrapped, max_lines)
        wrapped_lines ==
            IF over
            THEN [kept EXCEPT ![Len(kept)] = EllipsisLoop(kept[Len(kept)], available_width)]
            ELSE wrapped
        line_height == LineHeight(font_size, line_spacing)
        total_text_height == Len(wrapped_lines) * line_height
        v_offset == VOffset(c, align_v, margin, total_text_height)
    IN  IF IsBlankText(text_in)
        THEN [canvas |-> c, raised |-> FALSE, result |-> Result(0, FALSE, 0),
              wrapped_lines |-> <<>>]
        ELSE IF over /\ kept = <<>>
        THEN \* wrapped_lines[-1] of an empty list: IndexError
             [canvas |-> c, raised |-> TRUE, result |-> Result(0, FALSE, 0),
              wrapped_lines |-> <<>>]
        ELSE LET drawn == DrawLines(c, wrapped_lines, 0, font_size, align_h, margin,
                                    v_offset, line_height)
             IN  [canvas |-> drawn, raised |-> drawn.raised,
                  result |-> Result(Len(wrapped_lines), over, total_text_height),
                  wrapped_lines |-> wrapped_lines]

(***************************************************************************)
(* The primitive rasterizer.  EPDCanvas.line and EPDCanvas.circle hand     *)
(* their arguments to EPD_GUI.draw_line and EPD_GUI.draw_circle, which are *)
(* the integer line stepping and the midpoint circle of the design: every  *)
(* visited pixel goes to the canvas's set_pixel, which clips.              *)
(***************************************************************************)
Abs(n) == IF n < 0 THEN 0 - n ELSE n
Sign(n) == IF n > 0 THEN 1 ELSE IF n < 0 THEN 0 - 1 ELSE 0

\* set_pixel of the canvas: a write outside the logical plane is a no-op
canvas_set_pixel(c, x, y, color) ==
    IF 0 <= x /\ x < c.width /\ 0 <= y /\ y < c.height
    THEN gui_set_pixel(c, x, y, color)
    ELSE c

RECURSIVE PlotAll(_, _, _, _)
\* the points of path from the k-th on are set, in order
PlotAll(c, path, k, color) ==
    IF k > Len(path) THEN c
    ELSE LET c2 == canvas_set_pixel(c, path[k][1], path[k][2], color)
         IN  IF c2.raised THEN c2 ELSE PlotAll(c2, path, k + 1, color)

RECURSIVE LineFrom(_, _, _, _, _, _, _, _)
\* integer stepping from (x, y) to (x2, y2) for a line of extent dx >= 0 in x
\* and dy <= 0 in y, with error term err: the pixels visited, path being those
\* visited so far
LineFrom(x, y, x2, y2, dx, dy, err, path) ==
    LET stepx == 2 * err >= dy
        stepy == 2 * err <= dx
        here == Append(path, <<x, y>>)
    IN  IF x = x2 /\ y = y2 THEN here
        ELSE LineFrom(IF stepx THEN x + Sign(x2 - x) ELSE x,
                      IF stepy THEN y + Sign(y2 - y) ELSE y,
                      x2, y2, dx, dy,
                      err + (IF stepx THEN dy ELSE 0) + (IF stepy THEN dx ELSE 0),
                      here)

\* the pixels draw_line visits from (x1, y1) to (x2, y2), in order
LinePath(x1, y1, x2, y2) ==
    LineFrom(x1, y1, x2, y2, Abs(x2 - x1), 0 - Abs(y2 - y1),
             Abs(x2 - x1) - Abs(y2 - y1), <<>>)

\* EPD_GUI.draw_line with PIXEL_1X1, LINE_SOLID
draw_line(c, x1, y1, x2, y2, color) == PlotAll(c, LinePath(x1, y1, x2, y2), 1, color)

\* the call with the end point's coordinates exchanged
line_SwappedEnd(c, x1, y1, x2, y2, color) == draw_line(c, x1, y1, y2, x2, color)

\* EPDCanvas.line
line(c, x1, y1, x2, y2, color) == draw_line(c, x1, y1, x2, y2, color)

\* the points (x + i, y) for i in lo..hi
Span(x, y, lo, hi) == [i \in 1..(hi - lo + 1) |-> <<x + lo + i - 1, y>>]

\* what one step of the midpoint circle plots around centre (cx, cy) for the
\* octant point (x, y): the eight symmetric points, or in fill mode the
\* four scanlines between them
OctantPlot(cx, cy, x, y, fill) ==
    IF fill
    THEN Span(cx, cy + y, 0 - x, x) \o Span(cx, cy - y, 0 - x, x)
           \o Span(cx, cy + x, 0 - y, y) \o Span(cx, cy - x, 0 - y, y)
    ELSE << <<cx + x, cy + y>>, <<cx - x, cy + y>>, <<cx + x, cy - y>>, <<cx - x, cy - y>>,
            <<cx + y, cy + x>>, <<cx - y, cy + x>>, <<cx + y, cy - x>>, <<cx - y, cy - x>> >>

RECURSIVE CircleFrom(_, _, _, _, _, _, _)
\* midpoint circle from the octant point (x, y) with decision value d
CircleFrom(cx, cy, x, y, d, fill, path) ==
    IF x > y THEN path
    ELSE CircleFrom(cx, cy, x + 1,
                    IF d < 0 THEN y ELSE y - 1,
                    IF d < 0 THEN d + 4 * x + 6 ELSE d + 4 * (x - y) + 10,
                    fill, path \o OctantPlot(cx, cy, x, y, fill))

\* the pixels draw_circle visits, in order
CirclePath(cx, cy, radius, fill) == CircleFrom(cx, cy, 0, radius, 3 - 2 * radius, fill, <<>>)

\* EPD_GUI.draw_circle with PIXEL_1X1
draw_circle(c, x, y, radius, color, fill) ==
    PlotAll(c, CirclePath(x, y, radius, fill), 1, color)

\* the call with the centre's coordinates exchanged
circle_SwappedCentre(c, x, y, radius, color, fill) == draw_circle(c, y, x, radius, color, fill)

\* EPDCanvas.circle
circle(c, x, y, radius, color, fill) == draw_circle(c, x, y, radius, color, fill)

(***************************************************************************)
(* State.                                                                  *)
(***************************************************************************)
VARIABLES
    prog,        \* the program that runs: "example" (a script of examples/01..06),
                 \* "EPDCanvas", "LandscapeEPDCanvas", "render_text", "server" or
                 \* "script" (the driver session of a script)
    pc,          \* example script: "draw", "packed", "displayed"; canvas
                 \* session: "ready", "probed", "displayed"
    image,       \* example script: list(image.getdata()) of the rotated image
    img_bytes,   \* example script: the packed list
    epd_in,      \* the buffer last handed to the driver (epd.display,
                 \* epd.whitescreen_all_fast)
    n_tx,        \* number of buffers handed to the driver so far
    canvas,      \* the canvas (record, see EPDCanvas)
    prev_canvas, \* the canvas before the last call on it
    last_op      \* the last call on the canvas and its arguments

VARIABLES
    text_buf,    \* the text that render_text is called with
    ntok,        \* number of tokens text_buf is made of
    loop,        \* the shortening loop render_text is in: the line it started
                 \* with, the line it has now, and the passes made so far
    ret          \* the last call of render_text: its arguments and what it
                 \* returned (called = FALSE before the call)

pixVars == <<prog, pc, image, img_bytes, epd_in, n_tx, canvas, prev_canvas, last_op>>

txtVars == <<text_buf, ntok, ret, loop>>

VARIABLES
    srv_pc,      \* display server: where each thread of control is
    srv_req,     \* display server: the request each worker thread handles
    canvas_lock, \* display server: the set of threads that hold canvas_lock
    in_call,     \* display server: the canvas call each thread is inside of
    srv_canvas,  \* display server: content of the shared canvas
    panel,       \* display server: content of the last buffer transmitted
    last_update, \* display server: number of times last_update was written
    n_req,       \* display server: number of requests accepted so far
    epd_mode,    \* display server: the initialization the driver had last,
                 \* "full" or "fast"
    srv_log      \* display server: what each thread has done on the canvas and
                 \* the driver since its handler began, in order

srvVars == <<srv_pc, srv_req, canvas_lock, in_call, srv_canvas, panel, last_update, n_req,
             epd_mode, srv_log>>

VARIABLES
    script,      \* driver session of a script: the script that runs
    run_pc,      \* driver session: "try", "except", "finally" or "exited"
    run_todo,    \* driver session: the driver calls the block that runs has yet
                 \* to make (of the round that runs, inside a while True loop)
    n_rounds,    \* driver session: rounds of the while True loop begun so far
    epd_log      \* driver session: the driver calls made so far, in order

runVars == <<script, run_pc, run_todo, n_rounds, epd_log>>

NoOp ==
    [op |-> "none", x |-> 0, y |-> 0, color |-> WHITE,
     x2 |-> 0, y2 |-> 0, radius |-> 0, fill |-> FALSE, path |-> <<>>]

\* Image.new('1', (w, h), 255) after rotate(90, expand=True): EPD_WIDTH x EPD_HEIGHT
NewImage == [i \in 0..(EPD_WIDTH * EPD_HEIGHT - 1) |-> 255]

BlackCount(pixels) == Cardinality({i \in DOMAIN pixels : pixels[i] = 0})

(***************************************************************************)
(* The example scripts: draw on the image, pack it, hand it to the driver. *)
(***************************************************************************)
\* draw.text / draw.rectangle / ...: some pixel of the image becomes black
ExDraw ==
    /\ prog = "example" /\ pc = "draw"
    /\ BlackCount(image) < MaxBlack
    /\ \E x \in 0..(EPD_WIDTH - 1), y \in 0..(EPD_HEIGHT - 1) :
          /\ image[FlatIndex(x, y)] # 0
          /\ image' = [image EXCEPT ![FlatIndex(x, y)] = 0]
    /\ UNCHANGED <<prog, pc, img_bytes, epd_in, n_tx, canvas, prev_canvas, last_op, txtVars, srvVars, runVars>>

\* img_bytes = image_to_bytes(image)
ExPack ==
    /\ prog = "example" /\ pc = "draw"
    /\ img_bytes' = image_to_bytes(image)
    /\ pc' = "packed"
    /\ UNCHANGED <<prog, image, epd_in, n_tx, canvas, prev_canvas, last_op, txtVars, srvVars, runVars>>

\* epd.display(img_bytes)
ExDisplay ==
    /\ prog = "example" /\ pc = "packed"
    /\ epd_in' = img_bytes
    /\ n_tx' = n_tx + 1
    /\ pc' = "displayed"
    /\ UNCHANGED <<prog, image, img_bytes, canvas, prev_canvas, last_op, txtVars, srvVars, runVars>>

(***************************************************************************)
(* Calls on an EPDCanvas or a LandscapeEPDCanvas.                          *)
(***************************************************************************)
IsCanvasProg == prog \in {"EPDCanvas", "LandscapeEPDCanvas"}

Colors == {WHITE, BLACK}

\* coordinates tried: the logical plane and one pixel around it
XRange == (0 - 1)..canvas.width
YRange == (0 - 1)..canvas.height

\* A session is any sequence of clear and text calls, then one pixel, line or
\* circle call with any coordinates, then display.
CanvasCall(c, op) ==
    /\ IsCanvasProg /\ pc = "ready" /\ ~canvas.raised
    /\ canvas' = c
    /\ prev_canvas' = canvas
    /\ last_op' = op
    /\ pc' = IF op.op \in {"pixel", "line", "circle"} THEN "probed" ELSE "ready"
    /\ UNCHANGED <<prog, image, img_bytes, epd_in, n_tx, txtVars, srvVars, runVars>>

\* canvas.clear(color)
CvClear ==
    \E color \in Colors :
        CanvasCall(clear(canvas, color), [NoOp EXCEPT !.op = "clear", !.color = color])

\* canvas.pixel(x, y, color)
CvPixel ==
    \E x \in XRange, y \in YRange, color \in Colors :
        CanvasCall(pixel(canvas, x, y, color),
                   [NoOp EXCEPT !.op = "pixel", !.x = x, !.y = y, !.color = color])

\* canvas.text(x, y, "a a", font): two glyphs, drawn across the right and across
\* the bottom edge too
CvText ==
    \E x \in {0, canvas.width - 2}, y \in {0, canvas.height - 1} :
        CanvasCall(text(canvas, x, y, <<"a", " ", "a">>, 2),
                   [NoOp EXCEPT !.op = "text", !.x = x, !.y = y, !.color = BLACK])

MaxRadius == 3

\* where the lines tried start: outside the canvas, in two corners, inside
LineStarts ==
    {<<0 - 1, 0 - 1>>, <<0, 0>>, <<canvas.width \div 2, canvas.height \div 2>>,
     <<canvas.width - 1, canvas.height - 1>>, <<canvas.width, canvas.height \div 2>>}

\* canvas.line(x1, y1, x2, y2, color), in the colour the canvas was not
\* cleared to
CvLine ==
    \E p \in LineStarts, x2 \in XRange, y2 \in YRange, color \in Colors :
        /\ color # canvas.img[0]
        /\ CanvasCall(line(canvas, p[1], p[2], x2, y2, color),
                      [NoOp EXCEPT !.op = "line", !.x = p[1], !.y = p[2], !.color = color,
                                   !.x2 = x2, !.y2 = y2,
                                   !.path = LinePath(p[1], p[2], x2, y2)])

\* canvas.circle(x, y, radius, color, fill) with the centre on the canvas
CvCircle ==
    \E x \in 0..(canvas.width - 1), y \in 0..(canvas.height - 1),
       radius \in 0..MaxRadius, fill \in BOOLEAN, color \in Colors :
        /\ color # canvas.img[0]
        /\ CanvasCall(circle(canvas, x, y, radius, color, fill),
                      [NoOp EXCEPT !.op = "circle", !.x = x, !.y = y, !.color = color,
                                   !.radius = radius, !.fill = fill,
                                   !.path = CirclePath(x, y, radius, fill)])

\* canvas.display(): self.gui.epd.display(self.gui.img)
CvDisplay ==
    /\ IsCanvasProg /\ pc \in {"ready", "probed"} /\ ~canvas.raised
    /\ epd_in' = canvas.img
    /\ n_tx' = n_tx + 1
    /\ pc' = "displayed"
    /\ UNCHANGED <<prog, image, img_bytes, canvas, prev_canvas, last_op, txtVars, srvVars, runVars>>

(***************************************************************************)
(* A call of LandscapeEPDCanvas.render_text on a fresh landscape canvas.   *)
(***************************************************************************)
\* max_lines=8, line_spacing=1.2 (landscape_helper.py:32)
DefaultMaxLines == 8
\* margin=10 on the 250 pixel canvas, scaled with the panel
DefaultMargin == LandscapeWidth \div 8
DefaultLineSpacing == <<12, 10>>

\* a word wider than the canvas
LongWord == [i \in 1..(LandscapeWidth + 1) |-> "a"]

Tokens == {<<"a">>, LongWord, <<" ">>, <<"\n">>}

FontSizes == {2, 3}
\* left/top, center/middle, right/bottom and a pair of values that are not
\* alignments
Alignments == {<<"left", "top">>, <<"center", "middle">>, <<"right", "bottom">>,
               <<"justify", "baseline">>}
\* no margin, the default, and a margin that leaves no width at all
Margins == {0, DefaultMargin, (LandscapeWidth \div 2) + 1}
MaxLinesArgs == {0, 1, 2, DefaultMaxLines}

NoCall ==
    [called |-> FALSE, font_size |-> 0, align_h |-> "", align_v |-> "",
     margin |-> 0, max_lines |-> 0, raised |-> FALSE,
     result |-> Result(0, FALSE, 0), wrapped_lines |-> <<>>]

\* the caller builds the text
TxType ==
    /\ prog = "render_text" /\ ~ret.called
    /\ ntok < MaxTokens
    /\ \E t \in Tokens : text_buf' = text_buf \o t
    /\ ntok' = ntok + 1
    /\ UNCHANGED <<pixVars, ret, loop, srvVars, runVars>>

\* canvas.render_text(text, font_size, align_h, align_v, margin, 1.2, max_lines)
TxRender ==
    /\ prog = "render_text" /\ ~ret.called
    /\ \E font_size \in FontSizes, al \in Alignments, margin \in Margins,
          max_lines \in MaxLinesArgs :
          LET r == render_text(canvas, text_buf, font_size, al[1], al[2], margin,
                               DefaultLineSpacing, max_lines)
          IN  /\ canvas' = r.canvas
              /\ ret' = [called |-> TRUE, font_size |-> font_size, align_h |-> al[1],
                         align_v |-> al[2], margin |-> margin, max_lines |-> max_lines,
                         raised |-> r.raised, result |-> r.result,
                         wrapped_lines |-> r.wrapped_lines]
    /\ prev_canvas' = canvas
    /\ last_op' = [NoOp EXCEPT !.op = "render_text"]
    /\ UNCHANGED <<prog, pc, image, img_bytes, epd_in, n_tx, text_buf, ntok, loop, srvVars, runVars>>

(***************************************************************************)
(* A call of render_text with a text made of words: short words and a word *)
(* wider than the canvas, separated by single spaces and newlines.  The    *)
(* text is drawn at font size 2, aligned left and top.                     *)
(***************************************************************************)
MaxWords == 3

Words == {<<"a">>, <<"b", "b">>, LongWord}
Separators == {<<" ">>, <<"\n">>}

\* a narrow margin, a margin that leaves room for four or five characters,
\* and a margin that leaves no width at all
WrapMargins == {1, (LandscapeWidth \div 2) - 2, (LandscapeWidth \div 2) + 1}
WrapMaxLines == {0, 1, 2, DefaultMaxLines}

\* the caller builds the text word by word
WrType ==
    /\ prog = "wrap" /\ ~ret.called
    /\ ntok < MaxWords
    /\ \E w \in Words, sep \in Separators :
          text_buf' = IF text_buf = <<>> THEN w ELSE text_buf \o sep \o w
    /\ ntok' = ntok + 1
    /\ UNCHANGED <<pixVars, ret, loop, srvVars, runVars>>

\* canvas.render_text(text, 2, 'left', 'top', margin, 1.2, max_lines)
WrRender ==
    /\ prog = "wrap" /\ ~ret.called /\ ntok > 0
    /\ \E margin \in WrapMargins, max_lines \in WrapMaxLines :
          LET r == render_text(canvas, text_buf, 2, "left", "top", margin,
                               DefaultLineSpacing, max_lines)
          IN  /\ canvas' = r.canvas
              /\ ret' = [called |-> TRUE, font_size |-> 2, align_h |-> "left",
                         align_v |-> "top", margin |-> margin, max_lines |-> max_lines,
                         raised |-> r.raised, result |-> r.result,
                         wrapped_lines |-> r.wrapped_lines]
    /\ prev_canvas' = canvas
    /\ last_op' = [NoOp EXCEPT !.op = "render_text"]
    /\ UNCHANGED <<prog, pc, image, img_bytes, epd_in, n_tx, text_buf, ntok, loop, srvVars, runVars>>

(***************************************************************************)
(* The two loops of render_text that shorten a line, one pass at a time:   *)
(* the "while True" loop that puts "..." on the last line kept, and the    *)
(* "while len(current_line) > 3" loop of _wrap_text that shortens a word.  *)
(***************************************************************************)
NoLoop ==
    [kind |-> "none", line0 |-> <<>>, width |-> 0, cur |-> <<>>, iters |-> 0, done |-> FALSE]

\* the margins of the wrapped texts, and one that leaves a width of zero
LoopMargins == WrapMargins \cup {LandscapeWidth \div 2}

\* the pass going on with every word of the line, none removed
EllipsisPass_KeepsWords(last_line, available_width) ==
    LET test_line == last_line \o Ellipsis
        words == Split(last_line)
        keep == IF Len(last_line) - 3 > 0 THEN Len(last_line) - 3 ELSE 0
    IN  IF Measure(test_line) <= available_width THEN [done |-> TRUE, line |-> test_line]
        ELSE IF Len(words) <= 1 THEN [done |-> TRUE, line |-> PyPrefix(last_line, keep) \o Ellipsis]
        ELSE [done |-> FALSE, line |-> Join(words, <<" ">>)]

\* one pass of "while True": break with the text that replaces
\* wrapped_lines[-1], or go on with the last word removed
EllipsisPass(last_line, available_width) ==
    LET test_line == last_line \o Ellipsis
        words == Split(last_line)
        keep == IF Len(last_line) - 3 > 0 THEN Len(last_line) - 3 ELSE 0
    IN  IF Measure(test_line) <= available_width THEN [done |-> TRUE, line |-> test_line]
        ELSE IF Len(words) <= 1 THEN [done |-> TRUE, line |-> PyPrefix(last_line, keep) \o Ellipsis]
        ELSE [done |-> FALSE, line |-> Join(PyPrefix(words, Len(words) - 1), <<" ">>)]

\* one pass of "while len(current_line) > 3": drop the last character, break
\* when the rest followed by "..." fits
ShortenPass(current_line, max_width) ==
    LET shorter == PyPrefix(current_line, Len(current_line) - 1)
        test == shorter \o Ellipsis
    IN  IF Measure(test) <= max_width THEN [done |-> TRUE, line |-> test]
        ELSE [done |-> FALSE, line |-> shorter]

\* render_text is called with a text that wraps to more than max_lines lines:
\* last_line = wrapped_lines[-1] after the cut to max_lines
LoopEnterEllipsis ==
    /\ prog \in {"render_text", "wrap"} /\ ~ret.called
    /\ Strip(text_buf) # <<>>
    /\ \E margin \in LoopMargins, max_lines \in WrapMaxLines \ {0} :
          LET available_width == LandscapeWidth - (2 * margin)
              wrapped_lines == _wrap_text(text_buf, available_width)
          IN  /\ Len(wrapped_lines) > max_lines
              /\ ret' = [NoCall EXCEPT !.called = TRUE, !.font_size = 2, !.align_h = "left",
                                       !.align_v = "top", !.margin = margin,
                                       !.max_lines = max_lines]
              /\ loop' = [NoLoop EXCEPT !.kind = "ellipsis", !.width = available_width,
                                        !.line0 = wrapped_lines[max_lines],
                                        !.cur = wrapped_lines[max_lines]]
    /\ UNCHANGED <<pixVars, text_buf, ntok, srvVars, runVars>>

\* a pass of the "while True" loop
EllipsisStep ==
    /\ loop.kind = "ellipsis" /\ ~loop.done
    /\ LET r == EllipsisPass(loop.cur, loop.width)
       IN  loop' = [loop EXCEPT !.cur = r.line, !.done = r.done, !.iters = @ + 1]
    /\ UNCHANGED <<pixVars, text_buf, ntok, ret, srvVars, runVars>>

\* _wrap_text meets, as the first word of a paragraph, a word wider than
\* max_width: current_line = word
LoopEnterShorten ==
    /\ prog \in {"render_text", "wrap"} /\ ~ret.called
    /\ Strip(text_buf) # <<>>
    /\ \E margin \in LoopMargins :
          LET max_width == LandscapeWidth - (2 * margin)
              paragraphs == SplitLines(text_buf)
          IN  \E p \in 1..Len(paragraphs) :
                 LET words == Split(paragraphs[p])
                 IN  /\ Strip(paragraphs[p]) # <<>>
                     /\ Measure(words[1]) > max_width
                     /\ ret' = [NoCall EXCEPT !.called = TRUE, !.font_size = 2,
                                              !.align_h = "left", !.align_v = "top",
                                              !.margin = margin,
                                              !.max_lines = DefaultMaxLines]
                     /\ loop' = [NoLoop EXCEPT !.kind = "shorten", !.width = max_width,
                                               !.line0 = words[1], !.cur = words[1]]
    /\ UNCHANGED <<pixVars, text_buf, ntok, srvVars, runVars>>

\* the test of "while len(current_line) > 3" and, when it holds, a pass
ShortenStep ==
    /\ loop.kind = "shorten" /\ ~loop.done
    /\ IF Len(loop.cur) > 3
       THEN LET r == ShortenPass(loop.cur, loop.width)
            IN  loop' = [loop EXCEPT !.cur = r.line, !.done = r.done, !.iters = @ + 1]
       ELSE loop' = [loop EXCEPT !.done = TRUE]
    /\ UNCHANGED <<pixVars, text_buf, ntok, ret, srvVars, runVars>>

(***************************************************************************)
(* The display server (display_server.py).  Flask runs with threaded=True: *)
(* every request is handled by a worker thread of its own, and the signal  *)
(* handler runs in the main thread.  A call on the canvas (clear,          *)
(* render_text, display, display_fast) takes time: it begins, other        *)
(* threads may run, and it ends.                                           *)
(***************************************************************************)
NumWorkers == 2
MaxRequests == 2

\* the thread that runs main() and the signal handler
MainThread == 0
Workers == 1..NumWorkers
Threads == {MainThread} \cup Workers

NoRequest ==
    [route |-> "none", text |-> "ok", font_is_int |-> TRUE, font_size |-> 24,
     align_h |-> "center", align_v |-> "middle", clear_first |-> FALSE, fast_refresh |-> FALSE]

\* a well-formed POST with the defaults of the handlers
DisplayRequest(route) ==
    [NoRequest EXCEPT !.route = route, !.clear_first = TRUE]

\* the POST requests of one route: the well-formed ones, and the ones with one
\* field wrong. text is "ok", "empty" (the empty string), "missing" or "not_str";
\* font_is_int is FALSE for a font size that is no integer
DisplayRequests(route) ==
    LET ok == DisplayRequest(route) IN
    {[ok EXCEPT !.clear_first = cf, !.fast_refresh = fr] : cf, fr \in BOOLEAN}
        \cup {[ok EXCEPT !.font_size = n] : n \in {7, 8, 48, 49}}
        \cup {[ok EXCEPT !.text = t] : t \in {"empty", "missing"}}
        \cup {[ok EXCEPT !.font_is_int = FALSE]}
        \cup {[ok EXCEPT !.align_h = "justify"], [ok EXCEPT !.align_v = "baseline"]}

\* the requests the server receives: POST /api/display (a JSON body, whose text
\* may be of another type), POST /display (a form) and GET /clear
Requests ==
    DisplayRequests("/api/display")
        \cup {[DisplayRequest("/api/display") EXCEPT !.text = "not_str"]}
        \cup DisplayRequests("/display")
        \cup {[NoRequest EXCEPT !.route = "/clear"]}

\* handle_api_display: the checks before update_display
ApiAccepts(r) ==
    /\ r.text # "missing"
    /\ r.text # "not_str"
    /\ r.font_is_int /\ ~(r.font_size < 8 \/ r.font_size > 48)
    /\ r.align_h \in {"left", "center", "right"}
    /\ r.align_v \in {"top", "middle", "bottom"}

\* handle_form_submission: int() of the font size, then the checks before
\* update_display; a missing text field reads as the empty string
FormAccepts(r) ==
    /\ r.font_is_int
    /\ r.text \notin {"empty", "missing"}
    /\ ~(r.font_size < 8 \/ r.font_size > 48)

\* the handler of request r calls update_display
Accepts(r) ==
    IF r.route = "/api/display" THEN ApiAccepts(r) ELSE FormAccepts(r)

\* thread t is inside a call that writes the canvas
Mutating(t) == in_call[t] \in {"clear", "render_text"}

\* thread t is inside a call that sends the canvas buffer to the panel
Transmitting(t) == in_call[t] \in {"display", "display_fast"}

\* the process is alive: sys.exit(0) of the signal handler ends every thread
Running == prog = "server" /\ srv_pc[MainThread] # "exited"

\* what a canvas call that returned has done on the driver, or the call
\* itself if it does not reach the driver
Done(op) ==
    IF op = "display_fast" THEN <<"whitescreen_all_fast">> ELSE <<op>>

\* thread t enters the canvas call op; display_fast begins with hw_init_fast
CallBegin(t, op) ==
    /\ in_call[t] = "none"
    /\ in_call' = [in_call EXCEPT ![t] = op]
    /\ srv_canvas' = IF op \in {"clear", "render_text"} THEN "partial" ELSE srv_canvas
    /\ panel' = IF op \in {"clear", "render_text"}
                THEN (IF \E u \in Threads : Transmitting(u) THEN "partial" ELSE panel)
                ELSE srv_canvas
    /\ epd_mode' = IF op = "display_fast" THEN "fast" ELSE epd_mode
    /\ srv_log' = IF op = "display_fast"
                  THEN [srv_log EXCEPT ![t] = Append(@, "hw_init_fast")]
                  ELSE srv_log
    /\ UNCHANGED srv_pc

\* thread t returns from the canvas call op and goes on at next
CallEnd(t, op, next) ==
    /\ in_call[t] = op
    /\ in_call' = [in_call EXCEPT ![t] = "none"]
    /\ srv_pc' = [srv_pc EXCEPT ![t] = next]
    /\ srv_canvas' = IF op \in {"clear", "render_text"}
                     THEN (IF \E u \in Threads \ {t} : Mutating(u) THEN "partial"
                           ELSE IF op = "clear" THEN "blank" ELSE "text")
                     ELSE srv_canvas
    /\ srv_log' = [srv_log EXCEPT ![t] = @ \o Done(op)]
    /\ UNCHANGED <<panel, epd_mode>>

\* the canvas call op of thread t raises (the font provider or the driver
\* fails); the thread goes on at handler, where the exception takes it
CallRaise(t, op, handler) ==
    /\ in_call[t] = op
    /\ op \in {"render_text", "display", "display_fast"}
    /\ in_call' = [in_call EXCEPT ![t] = "none"]
    /\ srv_pc' = [srv_pc EXCEPT ![t] = handler]
    /\ srv_canvas' = IF op = "render_text"
                     THEN (IF \E u \in Threads \ {t} : Mutating(u) THEN "partial" ELSE "text")
                     ELSE srv_canvas
    /\ srv_log' = [srv_log EXCEPT ![t] = Append(@, "raised")]
    /\ UNCHANGED <<panel, epd_mode>>

\* a canvas call inside a block that an exception leaves for handler
CanvasOp(t, op, next, handler) ==
    CallBegin(t, op) \/ CallEnd(t, op, next) \/ CallRaise(t, op, handler)

\* a handler takes a request: handle_clear, or a POST handler that calls
\* update_display when its checks pass and answers with an error otherwise
SrvAcceptFrom(w, requests) ==
    /\ Running /\ srv_pc[w] = "idle"
    /\ n_req < MaxRequests
    /\ \E r \in requests :
          IF r.route = "/clear"
          THEN /\ srv_req' = [srv_req EXCEPT ![w] = r]
               /\ srv_pc' = [srv_pc EXCEPT ![w] = "hc_lock"]
          ELSE IF Accepts(r)
          THEN /\ srv_req' = [srv_req EXCEPT ![w] = r]
               /\ srv_pc' = [srv_pc EXCEPT ![w] = "ud_lock"]
          ELSE UNCHANGED <<srv_req, srv_pc>>
    /\ n_req' = n_req + 1
    /\ UNCHANGED <<canvas_lock, in_call, srv_canvas, panel, last_update,
                   epd_mode, srv_log, pixVars, txtVars, runVars>>

SrvAccept(w) == SrvAcceptFrom(w, Requests)

\* the requests whose handling differs once update_display or handle_clear is
\* entered: well-formed POSTs to /api/display with either value of clear_first
\* and fast_refresh, one with the empty text, and GET /clear
UpdateRequests ==
    {[DisplayRequest("/api/display") EXCEPT !.clear_first = cf, !.fast_refresh = fr] :
        cf, fr \in BOOLEAN}
        \cup {[DisplayRequest("/api/display") EXCEPT !.text = "empty"]}
        \cup {[NoRequest EXCEPT !.route = "/clear"]}

SrvAcceptUpdate(w) == SrvAcceptFrom(w, UpdateRequests)

\* update_display: return or exception, leaving the with block, with the lock
\* kept
UdUnlock_KeepsLock(w) ==
    /\ Running /\ srv_pc[w] = "ud_unlock"
    /\ srv_pc' = [srv_pc EXCEPT ![w] = "idle"]
    /\ srv_req' = [srv_req EXCEPT ![w] = NoRequest]
    /\ srv_log' = [srv_log EXCEPT ![w] = <<>>]
    /\ UNCHANGED <<canvas_lock, in_call, srv_canvas, panel, last_update, n_req, epd_mode,
                   pixVars, txtVars, runVars>>

\* update_display: with canvas_lock:
UdLock(w) ==
    /\ Running /\ srv_pc[w] = "ud_lock"
    /\ canvas_lock = {}
    /\ canvas_lock' = {w}
    /\ srv_pc' = [srv_pc EXCEPT ![w] = IF srv_req[w].clear_first THEN "ud_clear" ELSE "ud_render"]
    /\ UNCHANGED <<srv_req, in_call, srv_canvas, panel, last_update, n_req,
                   epd_mode, srv_log, pixVars, txtVars, runVars>>

\* update_display: if clear_first: canvas.clear()
UdClear(w) ==
    /\ Running /\ srv_pc[w] = "ud_clear"
    /\ CanvasOp(w, "clear", "ud_render", "ud_unlock")
    /\ UNCHANGED <<srv_req, canvas_lock, last_update, n_req, pixVars, txtVars, runVars>>

\* render_text of update_display with its exception caught inside the block,
\* the function going on at the transmit
UdRender_Swallows(w) ==
    /\ Running /\ srv_pc[w] = "ud_render"
    /\ IF srv_req[w].text = "empty"
       THEN /\ srv_pc' = [srv_pc EXCEPT ![w] = "ud_transmit"]
            /\ srv_log' = [srv_log EXCEPT ![w] = Append(@, "render_text")]
            /\ UNCHANGED <<in_call, srv_canvas, panel, epd_mode>>
       ELSE CanvasOp(w, "render_text", "ud_transmit", "ud_transmit")
    /\ UNCHANGED <<srv_req, canvas_lock, last_update, n_req, pixVars, txtVars, runVars>>

\* update_display: result = canvas.render_text(...). The call returns without
\* drawing for a blank text, and draws with the default alignment for an
\* alignment it does not know
UdRender(w) ==
    /\ Running /\ srv_pc[w] = "ud_render"
    /\ IF srv_req[w].text = "empty"
       THEN /\ srv_pc' = [srv_pc EXCEPT ![w] = "ud_transmit"]
            /\ srv_log' = [srv_log EXCEPT ![w] = Append(@, "render_text")]
            /\ UNCHANGED <<in_call, srv_canvas, panel, epd_mode>>
       ELSE CanvasOp(w, "render_text", "ud_transmit", "ud_unlock")
    /\ UNCHANGED <<srv_req, canvas_lock, last_update, n_req, pixVars, txtVars, runVars>>

\* the transmit of update_display with its exception caught inside the block,
\* the function going on at the timestamp
UdTransmit_Swallows(w) ==
    /\ Running /\ srv_pc[w] = "ud_transmit"
    /\ CanvasOp(w, IF srv_req[w].fast_refresh THEN "display_fast" ELSE "display", "ud_stamp",
                "ud_stamp")
    /\ UNCHANGED <<srv_req, canvas_lock, last_update, n_req, pixVars, txtVars, runVars>>

\* update_display: canvas.display_fast() if fast_refresh else canvas.display()
UdTransmit(w) ==
    /\ Running /\ srv_pc[w] = "ud_transmit"
    /\ CanvasOp(w, IF srv_req[w].fast_refresh THEN "display_fast" ELSE "display", "ud_stamp",
                "ud_unlock")
    /\ UNCHANGED <<srv_req, canvas_lock, last_update, n_req, pixVars, txtVars, runVars>>

\* update_display: last_update = datetime.now().isoformat()
UdStamp(w) ==
    /\ Running /\ srv_pc[w] = "ud_stamp"
    /\ last_update' = last_update + 1
    /\ srv_pc' = [srv_pc EXCEPT ![w] = "ud_unlock"]
    /\ UNCHANGED <<srv_req, canvas_lock, in_call, srv_canvas, panel, n_req,
                   epd_mode, srv_log, pixVars, txtVars, runVars>>

\* update_display: return, leaving the with block
UdUnlock(w) ==
    /\ Running /\ srv_pc[w] = "ud_unlock"
    /\ canvas_lock' = canvas_lock \ {w}
    /\ srv_pc' = [srv_pc EXCEPT ![w] = "idle"]
    /\ srv_req' = [srv_req EXCEPT ![w] = NoRequest]
    /\ srv_log' = [srv_log EXCEPT ![w] = <<>>]
    /\ UNCHANGED <<in_call, srv_canvas, panel, last_update, n_req, epd_mode, pixVars, txtVars, runVars>>

\* handle_clear: with canvas_lock:
HcLock(w) ==
    /\ Running /\ srv_pc[w] = "hc_lock"
    /\ canvas_lock = {}
    /\ canvas_lock' = {w}
    /\ srv_pc' = [srv_pc EXCEPT ![w] = "hc_clear"]
    /\ UNCHANGED <<srv_req, in_call, srv_canvas, panel, last_update, n_req,
                   epd_mode, srv_log, pixVars, txtVars, runVars>>

\* handle_clear: canvas.clear()
HcClear(w) ==
    /\ Running /\ srv_pc[w] = "hc_clear"
    /\ CanvasOp(w, "clear", "hc_display", "hc_unlock")
    /\ UNCHANGED <<srv_req, canvas_lock, last_update, n_req, pixVars, txtVars, runVars>>

\* handle_clear: canvas.display()
HcDisplay(w) ==
    /\ Running /\ srv_pc[w] = "hc_display"
    /\ CanvasOp(w, "display", "hc_stamp", "hc_unlock")
    /\ UNCHANGED <<srv_req, canvas_lock, last_update, n_req, pixVars, txtVars, runVars>>

\* handle_clear: last_update = datetime.now().isoformat()
HcStamp(w) ==
    /\ Running /\ srv_pc[w] = "hc_stamp"
    /\ last_update' = last_update + 1
    /\ srv_pc' = [srv_pc EXCEPT ![w] = "hc_unlock"]
    /\ UNCHANGED <<srv_req, canvas_lock, in_call, srv_canvas, panel, n_req,
                   epd_mode, srv_log, pixVars, txtVars, runVars>>

\* handle_clear: leaving the with block, then the response
HcUnlock(w) ==
    /\ Running /\ srv_pc[w] = "hc_unlock"
    /\ canvas_lock' = canvas_lock \ {w}
    /\ srv_pc' = [srv_pc EXCEPT ![w] = "idle"]
    /\ srv_req' = [srv_req EXCEPT ![w] = NoRequest]
    /\ srv_log' = [srv_log EXCEPT ![w] = <<>>]
    /\ UNCHANGED <<in_call, srv_canvas, panel, last_update, n_req, epd_mode, pixVars, txtVars, runVars>>

\* SIGINT or SIGTERM arrives: signal_handler starts in the main thread
SigReceive ==
    /\ Running /\ srv_pc[MainThread] = "serving"
    /\ srv_pc' = [srv_pc EXCEPT ![MainThread] = "sig_clear"]
    /\ UNCHANGED <<srv_req, canvas_lock, in_call, srv_canvas, panel, last_update, n_req,
                   epd_mode, srv_log, pixVars, txtVars, runVars>>

\* signal_handler: canvas.clear()
SigClear ==
    /\ Running /\ srv_pc[MainThread] = "sig_clear"
    /\ CanvasOp(MainThread, "clear", "sig_display", "sig_exit")
    /\ UNCHANGED <<srv_req, canvas_lock, last_update, n_req, pixVars, txtVars, runVars>>

\* signal_handler: canvas.display()
SigDisplay ==
    /\ Running /\ srv_pc[MainThread] = "sig_display"
    /\ CanvasOp(MainThread, "display", "sig_sleep", "sig_exit")
    /\ UNCHANGED <<srv_req, canvas_lock, last_update, n_req, pixVars, txtVars, runVars>>

\* signal_handler: canvas.sleep(); canvas.cleanup()
SigSleep ==
    /\ Running /\ srv_pc[MainThread] = "sig_sleep"
    /\ srv_pc' = [srv_pc EXCEPT ![MainThread] = "sig_exit"]
    /\ UNCHANGED <<srv_req, canvas_lock, in_call, srv_canvas, panel, last_update, n_req,
                   epd_mode, srv_log, pixVars, txtVars, runVars>>

\* signal_handler: sys.exit(0)
SigExit ==
    /\ Running /\ srv_pc[MainThread] = "sig_exit"
    /\ srv_pc' = [srv_pc EXCEPT ![MainThread] = "exited"]
    /\ UNCHANGED <<srv_req, canvas_lock, in_call, srv_canvas, panel, last_update, n_req,
                   epd_mode, srv_log, pixVars, txtVars, runVars>>

(***************************************************************************)
(* The driver session of a script: epd = EPD_2Inch13(), then a try block   *)
(* with an except KeyboardInterrupt clause and a finally clause.  The      *)
(* session begins when the constructor has returned.  Only the calls on    *)
(* the driver are kept; drawing, packing and time.sleep lie between them.  *)
(***************************************************************************)
MaxRounds == 2

Scripts ==
    {"test_display", "01_hello_world", "02_shapes", "03_display_image",
     "04_clock", "05_system_info", "06_weather_template"}

\* the driver calls of the try block, up to its while True loop if it has one
\* (the 4000 write_data calls of test_display are one entry)
TryBody(s) ==
    CASE s = "test_display" ->
            <<"hw_init", "whitescreen_white", "write_cmd", "write_data", "update",
              "whitescreen_white", "sleep">>
      [] s \in {"01_hello_world", "02_shapes", "03_display_image"} ->
            <<"hw_init_gui", "display", "sleep">>
      [] s = "04_clock" -> <<"hw_init_gui", "display">>
      [] OTHER -> <<>>

\* the driver calls of one round of the while True loop, for each way through
\* it; empty for a script without a loop
LoopRounds(s) ==
    CASE s = "04_clock" ->
            {<<"hw_init_gui", "display">>, <<"hw_init_fast", "whitescreen_all_fast">>}
      [] s = "05_system_info" -> {<<"hw_init_gui", "display">>}
      [] s = "06_weather_template" -> {<<>>, <<"hw_init_gui", "display", "sleep">>}
      [] OTHER -> {}

\* the except KeyboardInterrupt clause with clean_gpio at its end as well
InterruptHandler_Cleans(s) ==
    IF s \in {"04_clock", "05_system_info", "06_weather_template"}
    THEN <<"hw_init", "whitescreen_white", "sleep", "clean_gpio">>
    ELSE <<"sleep", "clean_gpio">>

\* the driver calls of the except KeyboardInterrupt clause
InterruptHandler(s) ==
    IF s \in {"04_clock", "05_system_info", "06_weather_template"}
    THEN <<"hw_init", "whitescreen_white", "sleep">>
    ELSE <<"sleep">>

\* the driver call that an exception interrupts, if it comes during one
Cut(inside) == IF inside THEN <<Head(run_todo)>> ELSE <<>>

\* the next driver call of the try block or of the except clause returns
RunCall ==
    /\ run_pc \in {"try", "except"} /\ run_todo # <<>>
    /\ epd_log' = Append(epd_log, Head(run_todo))
    /\ run_todo' = Tail(run_todo)
    /\ UNCHANGED <<script, run_pc, n_rounds, pixVars, txtVars, srvVars>>

\* while True: the next round begins
RunLoop ==
    /\ run_pc = "try" /\ run_todo = <<>>
    /\ n_rounds < MaxRounds
    /\ \E round \in LoopRounds(script) : run_todo' = round
    /\ n_rounds' = n_rounds + 1
    /\ UNCHANGED <<script, run_pc, epd_log, pixVars, txtVars, srvVars>>

\* the try block of a script without a loop, or the except clause, ends
RunEnd ==
    /\ run_pc \in {"try", "except"} /\ run_todo = <<>>
    /\ run_pc = "try" => LoopRounds(script) = {}
    /\ run_pc' = "finally"
    /\ UNCHANGED <<script, run_todo, n_rounds, epd_log, pixVars, txtVars, srvVars>>

\* KeyboardInterrupt in the try block, during a driver call or between two:
\* the except KeyboardInterrupt clause runs
RunInterrupt ==
    /\ run_pc = "try"
    /\ \E inside \in {b \in BOOLEAN : b => run_todo # <<>>} :
          epd_log' = epd_log \o Cut(inside)
    /\ run_pc' = "except"
    /\ run_todo' = InterruptHandler(script)
    /\ UNCHANGED <<script, n_rounds, pixVars, txtVars, srvVars>>

\* an exception leaves the try statement: in the try block one that is no
\* KeyboardInterrupt (03_display_image catches FileNotFoundError and calls
\* sys.exit(1), which raises in turn), in the except clause any, a second
\* KeyboardInterrupt too
RunRaise ==
    /\ run_pc \in {"try", "except"}
    /\ \E inside \in {b \in BOOLEAN : b => run_todo # <<>>} :
          epd_log' = epd_log \o Cut(inside)
    /\ run_pc' = "finally"
    /\ run_todo' = <<>>
    /\ UNCHANGED <<script, n_rounds, pixVars, txtVars, srvVars>>

\* finally: epd.clean_gpio()
RunFinally ==
    /\ run_pc = "finally"
    /\ epd_log' = Append(epd_log, "clean_gpio")
    /\ run_pc' = "exited"
    /\ UNCHANGED <<script, run_todo, n_rounds, pixVars, txtVars, srvVars>>

(***************************************************************************)
(* Specifications.                                                         *)
(***************************************************************************)
vars == <<pixVars, txtVars, srvVars, runVars>>

PixStart(p, c) ==
    /\ prog = p
    /\ pc = IF p = "example" THEN "draw" ELSE "ready"
    /\ image = NewImage
    /\ img_bytes = EmptyList
    /\ epd_in = EmptyList
    /\ n_tx = 0
    /\ canvas = c
    /\ prev_canvas = c
    /\ last_op = NoOp

TxtStart == text_buf = <<>> /\ ntok = 0 /\ ret = NoCall /\ loop = NoLoop

\* epd = EPD_2Inch13() has returned and the try block of script s begins; s is
\* "none" where no script runs
RunStart(s) ==
    /\ script = s
    /\ run_pc = IF s = "none" THEN "none" ELSE "try"
    /\ run_todo = IF s = "none" THEN <<>> ELSE TryBody(s)
    /\ n_rounds = 0
    /\ epd_log = <<>>

\* main(): canvas = LandscapeEPDCanvas(); canvas.clear(); canvas.display();
\* the signal handlers are registered and app.run serves
SrvStart ==
    /\ srv_pc = [t \in Threads |-> IF t = MainThread THEN "serving" ELSE "idle"]
    /\ srv_req = [w \in Workers |-> NoRequest]
    /\ canvas_lock = {}
    /\ in_call = [t \in Threads |-> "none"]
    /\ srv_canvas = "blank"
    /\ panel = "blank"
    /\ last_update = 0
    /\ n_req = 0
    /\ epd_mode = "full"
    /\ srv_log = [t \in Threads |-> <<>>]

\* an example script, or a session of calls on a canvas of either kind
Init ==
    /\ \/ PixStart("example", EPDCanvas)
       \/ PixStart("EPDCanvas", EPDCanvas)
       \/ PixStart("LandscapeEPDCanvas", LandscapeEPDCanvas)
    /\ TxtStart
    /\ SrvStart
    /\ RunStart("none")

Next ==
    \/ ExDraw \/ ExPack \/ ExDisplay
    \/ CvClear \/ CvPixel \/ CvText
    \/ CvDisplay

Spec == Init /\ [][Next]_vars

\* one call of render_text with a text of up to MaxTokens tokens
InitText ==
    /\ PixStart("render_text", LandscapeEPDCanvas) /\ TxtStart /\ SrvStart
    /\ RunStart("none")

NextText == TxType \/ TxRender

SpecText == InitText /\ [][NextText]_vars

\* a session of clear, line and circle calls on a canvas of either kind
InitShapes ==
    /\ \/ PixStart("EPDCanvas", EPDCanvas)
       \/ PixStart("LandscapeEPDCanvas", LandscapeEPDCanvas)
    /\ TxtStart
    /\ SrvStart
    /\ RunStart("none")

NextShapes == CvClear \/ CvLine \/ CvCircle \/ CvDisplay

SpecShapes == InitShapes /\ [][NextShapes]_vars

\* one call of render_text with a text of up to MaxWords words
InitWrap ==
    /\ PixStart("wrap", LandscapeEPDCanvas) /\ TxtStart /\ SrvStart
    /\ RunStart("none")

NextWrap == WrType \/ WrRender

SpecWrap == InitWrap /\ [][NextWrap]_vars

\* a call of render_text followed into its shortening loops; the call runs
\* on one thread, so a loop that can make a pass makes it
InitLoop ==
    /\ \/ PixStart("render_text", LandscapeEPDCanvas)
       \/ PixStart("wrap", LandscapeEPDCanvas)
    /\ TxtStart
    /\ SrvStart
    /\ RunStart("none")

NextLoop ==
    \/ TxType \/ WrType
    \/ LoopEnterEllipsis \/ EllipsisStep
    \/ LoopEnterShorten \/ ShortenStep

SpecLoop ==
    InitLoop /\ [][NextLoop]_vars /\ WF_vars(EllipsisStep) /\ WF_vars(ShortenStep)

\* the display server after main() has started it
InitServer ==
    /\ PixStart("server", LandscapeEPDCanvas) /\ TxtStart /\ SrvStart
    /\ RunStart("none")

NextServer ==
    \/ \E w \in Workers :
          \/ SrvAccept(w)
          \/ UdLock(w) \/ UdClear(w) \/ UdRender(w) \/ UdTransmit(w)
          \/ UdStamp(w) \/ UdUnlock(w)
          \/ HcLock(w) \/ HcClear(w) \/ HcDisplay(w) \/ HcStamp(w) \/ HcUnlock(w)
    \/ SigReceive \/ SigClear \/ SigDisplay \/ SigSleep \/ SigExit

SpecServer == InitServer /\ [][NextServer]_vars

\* a step of worker w inside the with block of update_display or handle_clear
InsideStep(w) ==
    \/ UdClear(w) \/ UdRender(w) \/ UdTransmit(w) \/ UdStamp(w) \/ UdUnlock(w)
    \/ HcClear(w) \/ HcDisplay(w) \/ HcStamp(w) \/ HcUnlock(w)

\* worker w enters the with block
Acquire(w) == UdLock(w) \/ HcLock(w)

NextUpdates ==
    \E w \in Workers :
        \/ SrvAcceptUpdate(w)
        \/ UdLock(w) \/ UdClear(w) \/ UdRender(w) \/ UdTransmit(w)
        \/ UdStamp(w) \/ UdUnlock(w)
        \/ HcLock(w) \/ HcClear(w) \/ HcDisplay(w) \/ HcStamp(w) \/ HcUnlock(w)

\* the display server while it serves (no shutdown signal), handling updates
\* and clears under fair scheduling: a
\* thread that can go on does, and a thread that waits for canvas_lock gets
\* it if the lock is free again and again
SpecUpdates ==
    /\ InitServer /\ [][NextUpdates]_vars
    /\ WF_vars(\E w \in Workers : InsideStep(w))
    /\ \A w \in Workers : SF_vars(Acquire(w))

(***************************************************************************)
(* Properties.                                                             *)
(***************************************************************************)
\* the pixels of the physical store
PhysicalPixels == (0..(EPD_WIDTH - 1)) \X (0..(EPD_HEIGHT - 1))

\* the in-bounds logical coordinates of canvas c
LogicalPixels(c) == (0..(c.width - 1)) \X (0..(c.height - 1))

\* the (byte, bit) positions where two buffers of the same length differ
DiffBits(a, b) == {pos \in (DOMAIN a) \X (0..7) : Bit(a[pos[1]], pos[2]) # Bit(b[pos[1]], pos[2])}

\* C2: every buffer handed to the driver's transmit operation has
\* ceil(physical_width / 8) * physical_height bytes.
C2_TransmitLength ==
    n_tx > 0 => PyLen(epd_in) = ((EPD_WIDTH + 7) \div 8) * EPD_HEIGHT

\* C3: the buffer handed to the driver carries physical pixel (x, y) in byte
\* y + (x // 8) * physical_height at bit 7 - (x % 8), for the buffers of the
\* example packers (bit 1 = white, 0 = black).
C3_ColumnMajorLayout ==
    (prog = "example" /\ n_tx > 0) =>
        \A p \in PhysicalPixels :
            LET i == p[2] + (p[1] \div 8) * EPD_HEIGHT
            IN  /\ i \in DOMAIN epd_in
                /\ Bit(epd_in[i], 7 - (p[1] % 8))
                     = (IF image[FlatIndex(p[1], p[2])] = 0 THEN 0 ELSE 1)

\* the inverse of the packers' mapping: pixel i is bit 7 - (i % 8) of byte i // 8
Unpack(bytes, n) ==
    [i \in 0..(n - 1) |-> IF Bit(bytes[i \div 8], 7 - (i % 8)) = 1 THEN 255 ELSE 0]

C5_Polarity ==
    /\ (prog = "example" /\ pc \in {"packed", "displayed"}) =>
          /\ \A k \in DOMAIN img_bytes, b \in 0..7 :
                (Bit(img_bytes[k], b) = 0)
                    <=> (8 * k + (7 - b) < PyLen(image) /\ image[8 * k + (7 - b)] = 0)
          /\ BlackCount(image) = 0 => \A k \in DOMAIN img_bytes : img_bytes[k] = 255
    /\ (last_op.op = "clear" /\ last_op.color = WHITE) =>
          \A i \in DOMAIN canvas.img : canvas.img[i] = 255

C5_Witness ==
    /\ prog = "example" /\ pc = "displayed"
    /\ PyLen(image) % 8 # 0
    /\ image[PyLen(image) - 1] = 0

C7_SetPixelReadBack ==
    (last_op.op = "pixel"
       /\ 0 <= last_op.x /\ last_op.x < prev_canvas.width
       /\ 0 <= last_op.y /\ last_op.y < prev_canvas.height) =>
        /\ ~canvas.raised
        /\ get_pixel(canvas, last_op.x, last_op.y) = last_op.color
        /\ \A q \in LogicalPixels(canvas) :
              q # <<last_op.x, last_op.y>> =>
                  get_pixel(canvas, q[1], q[2]) = get_pixel(prev_canvas, q[1], q[2])
        /\ Cardinality(DiffBits(canvas.img, prev_canvas.img)) <= 1
        /\ [canvas EXCEPT !.img = prev_canvas.img] = prev_canvas

\* a pixel is painted white inside a text drawn earlier, on the landscape canvas
C7_Witness ==
    /\ prog = "LandscapeEPDCanvas" /\ last_op.op = "pixel"
    /\ last_op.x = 0 /\ last_op.y = 0 /\ last_op.color = WHITE
    /\ get_pixel(prev_canvas, 0, 0) = BLACK
    /\ get_pixel(prev_canvas, 1, 0) = WHITE
    /\ get_pixel(canvas, 2, 0) = BLACK

\* C8: pixel(x, y, color) with (x, y) outside [0, width) x [0, height) leaves
\* the canvas as it was and raises nothing, in either rotation mode.
C8_OutOfBoundsNoOp ==
    (last_op.op = "pixel"
       /\ ~(/\ 0 <= last_op.x /\ last_op.x < prev_canvas.width
            /\ 0 <= last_op.y /\ last_op.y < prev_canvas.height)) =>
        canvas = prev_canvas

C8_Witness ==
    /\ prog = "LandscapeEPDCanvas" /\ last_op.op = "pixel"
    /\ last_op.x = canvas.width /\ last_op.y = 0 - 1 /\ last_op.color = BLACK

\* C9: for an empty or whitespace-only text render_text returns
\* {lines: 0, truncated: false, text_height: 0} and draws nothing, whatever
\* the other arguments are.
C9_BlankTextNoDraw ==
    (ret.called /\ \A i \in 1..Len(text_buf) : text_buf[i] \in {" ", "\n"}) =>
        /\ ~ret.raised
        /\ ret.result = [lines |-> 0, truncated |-> FALSE, text_height |-> 0]
        /\ canvas = prev_canvas

C9_Witness ==
    /\ ret.called /\ text_buf = <<" ", "\n", " ">>
    /\ ret.max_lines = 0 /\ ret.align_h = "justify"

\* C10: for a text that is one word wider than the canvas, render_text with
\* the default max_lines (and margin) returns one line, that line ends in
\* "...", and truncated is true.
C10_LongWordTruncated ==
    (ret.called /\ text_buf = LongWord
       /\ ret.max_lines = DefaultMaxLines /\ ret.margin = DefaultMargin) =>
        /\ ret.result.lines = 1
        /\ Len(ret.wrapped_lines) = 1
        /\ EndsWithEllipsis(ret.wrapped_lines[1])
        /\ ret.result.truncated = TRUE

\* C1: in the display server no buffer is transmitted while another thread of
\* control mutates the canvas, at most one transmit is in flight at a time,
\* and so no buffer of a canvas in the middle of a mutation reaches the panel.
C1_TransmitExcludesMutation ==
    prog = "server" =>
        /\ \A t, u \in Threads : (t # u /\ Transmitting(t)) => ~Mutating(u)
        /\ Cardinality({t \in Threads : Transmitting(t)}) <= 1
        /\ panel # "partial"

\* the lines _wrap_text gives render_text for the call recorded in ret
WrappedOf(r) == _wrap_text(text_buf, LandscapeWidth - (2 * r.margin))

\* C11: for a text that is not blank and wraps into more than max_lines lines,
\* max_lines >= 1, render_text returns lines = max_lines and truncated = true,
\* the last line drawn ends in "..." and the lines before it are the wrapped
\* lines unchanged.
C11_TruncatesToMaxLines ==
    (ret.called /\ ret.max_lines >= 1 /\ ~IsBlankText(text_buf)
       /\ Len(WrappedOf(ret)) > ret.max_lines) =>
        /\ ~ret.raised
        /\ ret.result.lines = ret.max_lines
        /\ ret.result.truncated = TRUE
        /\ Len(ret.wrapped_lines) = ret.max_lines
        /\ EndsWithEllipsis(ret.wrapped_lines[ret.max_lines])
        /\ \A i \in 1..(ret.max_lines - 1) : ret.wrapped_lines[i] = WrappedOf(ret)[i]

\* three wrapped lines, two kept; the ellipsis does not fit the last one
C11_Witness ==
    /\ ret.called /\ ret.max_lines = 2
    /\ Len(WrappedOf(ret)) = 3
    /\ ret.wrapped_lines[1] = <<"b", "b">>
    /\ Len(ret.wrapped_lines[2]) > LandscapeWidth - (2 * ret.margin)

\* C12: render_text never raises, whatever the text, the margin >= 0, the
\* max_lines >= 0 and the alignment values are.
C12_NeverRaises ==
    ret.called => ~ret.raised

\* the columns of row y of canvas c that are black
BlackColumns(c, y) == {x \in 0..(c.width - 1) : get_pixel(c, x, y) = BLACK}

\* the first pixel row of the i-th line (from 1) of the call recorded in r
LineRow(r, i) ==
    VOffset(canvas, r.align_v, r.margin, r.result.text_height)
        + (i - 1) * LineHeight(r.font_size, DefaultLineSpacing)

\* the horizontal offset of a line of width w, as the claim states it
StatedHOffset(r, w) ==
    CASE r.align_h = "left" -> r.margin
      [] r.align_h = "right" -> LandscapeWidth - w - r.margin
      [] r.align_h = "center" -> (LandscapeWidth - w) \div 2

\* C13: every line is drawn at h_offset = margin (left), canvas_width - w -
\* margin (right) or (canvas_width - w) / 2 rounded down (center), w being its
\* measured width: the black pixels of its row are the glyph pixels shifted by
\* h_offset, and with right alignment the rightmost of them lies within one
\* pixel of canvas_width - margin.
C13_HorizontalPlacement ==
    (ret.called /\ ~ret.raised /\ ret.align_h \in {"left", "center", "right"}) =>
        \A i \in 1..Len(ret.wrapped_lines) :
            LET drawn_line == ret.wrapped_lines[i]
                w == Measure(drawn_line)
                h == StatedHOffset(ret, w)
                y == LineRow(ret, i)
                black == BlackColumns(canvas, y)
            IN  (y \in 0..(canvas.height - 1)) =>
                  /\ black = {x \in 0..(LandscapeWidth - 1) :
                                /\ x - h \in 0..(w - 1)
                                /\ ~IsSpace(drawn_line[x - h + 1])}
                  /\ (ret.align_h = "right" /\ w > 0) =>
                        /\ black # {}
                        /\ \A x \in black : x <= LandscapeWidth - ret.margin + 1
                        /\ \E x \in black : x >= LandscapeWidth - ret.margin - 1

\* two words drawn flush right behind a margin
C13_Witness ==
    /\ ret.called /\ ret.align_h = "right" /\ ret.margin = DefaultMargin
    /\ DefaultMargin > 0
    /\ ret.wrapped_lines = <<<<"a", " ", "a">>>>
    /\ BlackColumns(canvas, LineRow(ret, 1))
          = {LandscapeWidth - DefaultMargin - 3, LandscapeWidth - DefaultMargin - 1}

\* the points of a path
PointsOf(path) == {path[k] : k \in 1..Len(path)}

\* the canvas is the canvas before the call with the in-bounds points of the
\* recorded path set to the colour of the call, and nothing else changed
OnlyPathWritten ==
    /\ ~canvas.raised
    /\ [canvas EXCEPT !.img = prev_canvas.img] = prev_canvas
    /\ \A q \in LogicalPixels(canvas) :
          get_pixel(canvas, q[1], q[2])
            = IF q \in PointsOf(last_op.path) THEN last_op.color
              ELSE get_pixel(prev_canvas, q[1], q[2])

\* C14: line(x1, y1, x2, y2) visits max(|x2-x1|, |y2-y1|) + 1 pixels, the first
\* is (x1, y1), the last is (x2, y2), consecutive ones differ by at most 1 in x
\* and in y, and exactly the visited pixels that are in bounds are written; a
\* line from (0, 0) along y = 0 to (n, 0) visits exactly (0..n, 0).
C14_LineGapFree ==
    last_op.op = "line" =>
        LET path == last_op.path
            n == Len(path)
            dx == Abs(last_op.x2 - last_op.x)
            dy == Abs(last_op.y2 - last_op.y)
        IN  /\ n = (IF dx > dy THEN dx ELSE dy) + 1
            /\ path[1] = <<last_op.x, last_op.y>>
            /\ path[n] = <<last_op.x2, last_op.y2>>
            /\ \A k \in 1..(n - 1) :
                  /\ Abs(path[k + 1][1] - path[k][1]) <= 1
                  /\ Abs(path[k + 1][2] - path[k][2]) <= 1
            /\ OnlyPathWritten
            /\ (last_op.x = 0 /\ last_op.y = 0 /\ last_op.y2 = 0 /\ last_op.x2 >= 0) =>
                  path = [k \in 1..(last_op.x2 + 1) |-> <<k - 1, 0>>]

\* a line from outside the canvas across it, neither axis-parallel nor diagonal
C14_Witness ==
    /\ prog = "LandscapeEPDCanvas" /\ last_op.op = "line"
    /\ last_op.x = 0 - 1 /\ last_op.y = 0 - 1
    /\ last_op.x2 = canvas.width - 1 /\ last_op.y2 = 3
    /\ get_pixel(canvas, last_op.x2, last_op.y2) = last_op.color
    /\ pc = "displayed"

\* C15: the pixels an outline circle that lies inside the canvas writes are
\* invariant under the rotation by 90 degrees about its centre: (cx + dx,
\* cy + dy) is written if and only if (cx - dy, cy + dx) is.
C15_CircleSymmetric ==
    (/\ last_op.op = "circle" /\ ~last_op.fill
     /\ last_op.x - last_op.radius >= 0 /\ last_op.x + last_op.radius < canvas.width
     /\ last_op.y - last_op.radius >= 0 /\ last_op.y + last_op.radius < canvas.height) =>
        LET cx == last_op.x
            cy == last_op.y
            r == last_op.radius
            Written(x, y) ==
                /\ <<x, y>> \in LogicalPixels(canvas)
                /\ get_pixel(canvas, x, y) # get_pixel(prev_canvas, x, y)
        IN  /\ OnlyPathWritten
            /\ Written(cx + r, cy)
            /\ \A dx \in (0 - r - 1)..(r + 1), dy \in (0 - r - 1)..(r + 1) :
                  Written(cx + dx, cy + dy) <=> Written(cx - dy, cy + dx)

\* an outline circle of the largest radius, not centred on the diagonal
C15_Witness ==
    /\ prog = "LandscapeEPDCanvas" /\ last_op.op = "circle" /\ ~last_op.fill
    /\ last_op.radius = MaxRadius
    /\ last_op.x = MaxRadius + 1 /\ last_op.y = MaxRadius
    /\ get_pixel(canvas, last_op.x, 0) = last_op.color
    /\ get_pixel(canvas, last_op.x, last_op.y) # last_op.color

\* the validation the two POST handlers are stated to apply
FailsValidation(r) ==
    \/ r.text \in {"missing", "empty", "not_str"}
    \/ ~r.font_is_int
    \/ r.font_size \notin 8..48
    \/ r.align_h \notin {"left", "center", "right"}
    \/ r.align_v \notin {"top", "middle", "bottom"}

\* C16: a POST to /api/display or /display that fails validation (text missing,
\* empty or no string, font size no integer or outside 8..48, an unknown
\* alignment) is rejected before the core is touched: its handler never holds
\* canvas_lock, never is inside a canvas call and never reaches the statement
\* that writes last_update
C16_RejectedBeforeCore ==
    \A w \in Workers :
        (srv_req[w].route \in {"/api/display", "/display"} /\ FailsValidation(srv_req[w]))
            => /\ w \notin canvas_lock
               /\ in_call[w] = "none"
               /\ srv_pc[w] \notin {"ud_stamp", "ud_unlock"}

\* C16, /api/display alone: no handler of that route holds canvas_lock for a
\* request that fails validation
C16_ApiRejected ==
    \A w \in Workers :
        (srv_req[w].route = "/api/display" /\ FailsValidation(srv_req[w]))
            => w \notin canvas_lock

\* C16, /display alone
C16_FormRejected ==
    \A w \in Workers :
        (srv_req[w].route = "/display" /\ FailsValidation(srv_req[w]))
            => w \notin canvas_lock

\* C17: the two shortening loops of render_text finish, after a number of
\* passes that the length of the line they started with bounds: the "..."
\* loop makes at most one pass more than the line has characters (the pass
\* that breaks), the word loop at most as many as the word has; and they
\* leave what render_text and _wrap_text compute
C17_LoopsBounded ==
    /\ loop.kind = "ellipsis" =>
          /\ loop.iters <= Len(loop.line0) + 1
          /\ loop.done => loop.cur = EllipsisLoop(loop.line0, loop.width)
    /\ loop.kind = "shorten" =>
          /\ loop.iters <= Len(loop.line0)
          /\ loop.done => loop.cur = ShortenWord(loop.line0, loop.width)

C17_LoopsTerminate ==
    [](C17_LoopsBounded) /\ ((loop.kind # "none") ~> loop.done)

\* the "..." loop has finished after removing a word
C17_Witness ==
    loop.kind = "ellipsis" /\ loop.done /\ loop.iters >= 2

\* the width render_text call r wraps to
AvailableWidth(r) == LandscapeWidth - (2 * r.margin)

\* the lines _wrap_text makes of one paragraph of the text
ParagraphLines(r, paragraph) == WrapParagraph(<<>>, paragraph, AvailableWidth(r))

\* word is wider than the available width of call r
TooWide(r, word) == Measure(word) > AvailableWidth(r)

\* the lengths k >= 3 of the proper prefixes of word that fit with "..."
FittingPrefixes(r, word) ==
    {k \in 3..(Len(word) - 1) : Measure(PyPrefix(word, k) \o Ellipsis) <= AvailableWidth(r)}

\* a too wide first word of more than 3 characters, as it is stated to be
\* shortened: the longest proper prefix of 3 or more characters that fits with
\* "..." after it, or the first 3 characters alone
StatedShortened(r, word) ==
    IF FittingPrefixes(r, word) # {}
    THEN PyPrefix(word, CHOOSE k \in FittingPrefixes(r, word) :
                            \A j \in FittingPrefixes(r, word) : j <= k) \o Ellipsis
    ELSE PyPrefix(word, 3)

Truncating(r) ==
    /\ r.called /\ ~r.raised /\ r.max_lines >= 1 /\ ~IsBlankText(text_buf)
    /\ Len(WrappedOf(r)) > r.max_lines

\* the lengths k > 3 of the prefixes of kept_line that fit with "..." after them
FittingLengths(r, kept_line) ==
    {k \in 4..Len(kept_line) : Measure(PyPrefix(kept_line, k) \o Ellipsis) <= AvailableWidth(r)}

\* the last line as stated: characters are removed from the end
StatedByCharacter(r, kept_line) ==
    IF FittingLengths(r, kept_line) # {}
    THEN PyPrefix(kept_line, CHOOSE k \in FittingLengths(r, kept_line) :
                            \A j \in FittingLengths(r, kept_line) : j <= k) \o Ellipsis
    ELSE PyPrefix(kept_line, 3) \o Ellipsis

\* C19 as stated: the last line kept is the longest prefix of more than 3
\* characters of the max_lines-th wrapped line that fits with "...", followed
\* by "...", or else its first 3 characters followed by "..."
C19_CharacterTruncation ==
    Truncating(ret) =>
        ret.wrapped_lines[ret.max_lines]
            = StatedByCharacter(ret, WrappedOf(ret)[ret.max_lines])

\* the numbers k of leading words of kept_line that fit, joined by single spaces,
\* with "..." after them
FittingWords(r, kept_line) ==
    {k \in 1..Len(Split(kept_line)) :
        Measure(Join(PyPrefix(Split(kept_line), k), <<" ">>) \o Ellipsis) <= AvailableWidth(r)}

\* the last line when whole words are removed from the end: the longest run
\* of leading words that fits with "...", or else the first word without its
\* last 3 characters, each followed by "..."
StatedByWord(r, kept_line) ==
    LET words == Split(kept_line)
        first == IF words = <<>> THEN <<>> ELSE words[1]
        keep == IF Len(first) - 3 > 0 THEN Len(first) - 3 ELSE 0
    IN  IF FittingWords(r, kept_line) # {}
        THEN Join(PyPrefix(words, CHOOSE k \in FittingWords(r, kept_line) :
                                      \A j \in FittingWords(r, kept_line) : j <= k),
                  <<" ">>) \o Ellipsis
        ELSE PyPrefix(first, keep) \o Ellipsis

\* C19, amended: the last line kept is made of the max_lines-th wrapped line
\* by removing whole words from its end
C19_WordTruncation ==
    Truncating(ret) =>
        ret.wrapped_lines[ret.max_lines] = StatedByWord(ret, WrappedOf(ret)[ret.max_lines])

\* a line of two words was cut to its first word to make room for "..."
C19_Witness ==
    /\ Truncating(ret)
    /\ Len(Split(WrappedOf(ret)[ret.max_lines])) = 2
    /\ FittingWords(ret, WrappedOf(ret)[ret.max_lines]) = {1}

\* the lines of a paragraph are greedy for the words placed: they hold these
\* words in order, joined by single spaces; a line of two or more words
\* fits; and the first word of the next line would not have fitted
GreedyFor(r, placed, lines) ==
    /\ Split(Join(lines, <<" ">>)) = placed
    /\ \A j \in 1..Len(lines) :
          /\ lines[j] = Join(Split(lines[j]), <<" ">>)
          /\ Len(Split(lines[j])) >= 1
          /\ Len(Split(lines[j])) >= 2 => Measure(lines[j]) <= AvailableWidth(r)
    /\ \A j \in 1..(Len(lines) - 1) :
          Measure(lines[j] \o <<" ">> \o Split(lines[j + 1])[1]) > AvailableWidth(r)

\* the first word of a paragraph as _wrap_text places it
FirstPlaced(r, word) ==
    IF TooWide(r, word) /\ Len(word) > 3 THEN StatedShortened(r, word) ELSE word

\* C20 as stated: the lines of every paragraph are the greedy runs of its
\* words
C20_GreedyRuns ==
    (ret.called /\ ~ret.raised) =>
        \A p \in 1..Len(SplitLines(text_buf)) :
            LET paragraph == SplitLines(text_buf)[p]
                words == Split(paragraph)
            IN  words # <<>> => GreedyFor(ret, words, ParagraphLines(ret, paragraph))

\* C20, amended: the lines of every paragraph are the greedy runs of its
\* words, the first word being shortened when it alone is too wide and has
\* more than 3 characters
C20_GreedyRunsOfPlaced ==
    (ret.called /\ ~ret.raised) =>
        \A p \in 1..Len(SplitLines(text_buf)) :
            LET paragraph == SplitLines(text_buf)[p]
                words == Split(paragraph)
            IN  words # <<>> =>
                    GreedyFor(ret, [words EXCEPT ![1] = FirstPlaced(ret, words[1])],
                              ParagraphLines(ret, paragraph))

\* a paragraph of three words was wrapped to a line of two words that fills
\* the available width, and a line of one
C20_Witness ==
    /\ ret.called /\ ~ret.raised
    /\ \E p \in 1..Len(SplitLines(text_buf)) :
           LET lines == ParagraphLines(ret, SplitLines(text_buf)[p])
           IN  /\ Len(lines) = 2
               /\ Len(Split(lines[1])) = 2
               /\ Measure(lines[1]) = AvailableWidth(ret)

\* height times line_spacing (a ratio <<num, den>>), rounded to the nearest
\* integer
RoundedLineHeight(font_size, line_spacing) ==
    ((2 * MeasureHeight(<<"A", "y">>, font_size) * line_spacing[1]) + line_spacing[2])
        \div (2 * line_spacing[2])

\* C21: line_height is round(h * line_spacing), h the measured height of "Ay",
\* and the text_height returned is the number of lines times that value
C21_LineHeightRounded ==
    (ret.called /\ ~ret.raised /\ ~IsBlankText(text_buf)) =>
        ret.result.text_height
            = ret.result.lines * RoundedLineHeight(ret.font_size, DefaultLineSpacing)

RECURSIVE WordsOfLines(_)
\* the whitespace-separated words of a list of lines or paragraphs, in order
WordsOfLines(ls) ==
    IF ls = <<>> THEN <<>> ELSE Split(Head(ls)) \o WordsOfLines(Tail(ls))

RECURSIVE LinesByParagraph(_, _)
\* the lines of each paragraph, wrapped on its own, one paragraph after the
\* other
LinesByParagraph(r, paragraphs) ==
    IF paragraphs = <<>> THEN <<>>
    ELSE ParagraphLines(r, Head(paragraphs)) \o LinesByParagraph(r, Tail(paragraphs))

\* every word of the text fits the available width of call r
AllWordsFit(r) ==
    \A i \in 1..Len(WordsOfLines(SplitLines(text_buf))) :
        ~TooWide(r, WordsOfLines(SplitLines(text_buf))[i])

\* C26: when every word of the text fits the available width, the words of
\* the lines of _wrap_text, in order, are the words of the text in order, and
\* the lines are those of the paragraphs one after the other: every line holds
\* words of one paragraph only, and a blank paragraph gives one empty line
C26_WordsPreserved ==
    (ret.called /\ ~ret.raised /\ AllWordsFit(ret)) =>
        /\ WordsOfLines(WrappedOf(ret)) = WordsOfLines(SplitLines(text_buf))
        /\ WrappedOf(ret) = LinesByParagraph(ret, SplitLines(text_buf))
        /\ \A p \in 1..Len(SplitLines(text_buf)) :
              LET paragraph == SplitLines(text_buf)[p]
              IN  /\ WordsOfLines(ParagraphLines(ret, paragraph)) = Split(paragraph)
                  /\ Split(paragraph) = <<>> => ParagraphLines(ret, paragraph) = <<<<>>>>

\* three words that fit, in two paragraphs, wrapped to three lines
C26_Witness ==
    /\ ret.called /\ ~ret.raised /\ AllWordsFit(ret)
    /\ Len(SplitLines(text_buf)) = 2
    /\ Len(WordsOfLines(SplitLines(text_buf))) = 3
    /\ Len(WrappedOf(ret)) = 3

\* the driver session of each script, from the try block to the exit
InitScripts ==
    /\ PixStart("script", EPDCanvas) /\ TxtStart /\ SrvStart
    /\ \E s \in Scripts : RunStart(s)

NextScripts == RunCall \/ RunLoop \/ RunEnd \/ RunInterrupt \/ RunRaise \/ RunFinally

SpecScripts == InitScripts /\ [][NextScripts]_vars

\* worker w is inside the with block of update_display or handle_clear
InsideLock(w) ==
    srv_pc[w] \in {"ud_clear", "ud_render", "ud_transmit", "ud_stamp", "ud_unlock",
                   "hc_clear", "hc_display", "hc_stamp", "hc_unlock"}

\* canvas_lock is held by the workers inside a with block and by no other
LockFollowsBlock ==
    /\ \A w \in Workers : w \in canvas_lock <=> InsideLock(w)
    /\ MainThread \notin canvas_lock
    /\ Cardinality(canvas_lock) <= 1

\* C22: canvas_lock is released whenever update_display or handle_clear
\* leaves its with block, by return or by an exception of render_text, display
\* or display_fast; so, under fair scheduling, every request that waits for
\* the lock gets it, whether or not an earlier update failed
C22_LockReleased ==
    /\ [](prog = "server" => LockFollowsBlock)
    /\ \A w \in Workers :
          (srv_pc[w] \in {"ud_lock", "hc_lock"}) ~> (w \in canvas_lock)

\* an update that failed is about to leave its with block while another
\* request waits for the lock
C22_Witness ==
    \E w, u \in Workers :
        /\ srv_pc[w] = "ud_unlock"
        /\ srv_log[w] # <<>> /\ srv_log[w][Len(srv_log[w])] = "raised"
        /\ srv_pc[u] \in {"ud_lock", "hc_lock"}

\* a call of worker w inside its with block has raised
Raised(w) == \E i \in 1..Len(srv_log[w]) : srv_log[w][i] = "raised"

\* the last thing worker w did is a transmit that returned
TransmitReturned(w) ==
    /\ srv_log[w] # <<>>
    /\ srv_log[w][Len(srv_log[w])] \in {"display", "whitescreen_all_fast"}

\* C23: last_update is written only by a thread that holds canvas_lock and
\* whose transmit has returned without error; an update or clear that raised
\* goes to the end of its block and leaves last_update as it was, so /status
\* never reports the time of an update whose transmit did not complete
C23_StampAfterTransmit ==
    /\ [](\A w \in Workers : Raised(w) => srv_pc[w] \in {"ud_unlock", "hc_unlock"})
    /\ [][/\ last_update' # last_update =>
               \E w \in Workers :
                   /\ w \in canvas_lock
                   /\ srv_pc[w] \in {"ud_stamp", "hc_stamp"}
                   /\ TransmitReturned(w) /\ ~Raised(w)
          /\ \A w \in Workers : Raised(w)' /\ ~Raised(w) => last_update' = last_update
          /\ \A w \in Workers : Raised(w) => last_update' = last_update]_vars

\* after an update that was stamped, another one has raised and is about to
\* leave its block
C23_Witness ==
    /\ last_update > 0
    /\ \E w \in Workers : Raised(w) /\ srv_pc[w] = "ud_unlock"

\* C24: a full-refresh transmit (canvas.display) is never in progress while
\* the driver is configured by the hw_init_fast of an earlier fast update
C24_FullTransmitAfterFullInit ==
    \A t \in Threads : in_call[t] = "display" => epd_mode = "full"

\* the steps of one update_display call as stated, for the request r
StatedSteps(r) ==
    (IF r.clear_first THEN <<"clear">> ELSE <<>>)
        \o <<"render_text">>
        \o (IF r.fast_refresh THEN <<"hw_init_fast", "whitescreen_all_fast">>
            ELSE <<"display">>)

IsPrefix(s, t) == Len(s) <= Len(t) /\ \A i \in 1..Len(s) : s[i] = t[i]

\* what worker w has done in its block before the call that raised, if any
StepsDone(w) ==
    IF Raised(w) THEN SubSeq(srv_log[w], 1, Len(srv_log[w]) - 1) ELSE srv_log[w]

InUpdate(w) ==
    srv_pc[w] \in {"ud_clear", "ud_render", "ud_transmit", "ud_stamp", "ud_unlock"}

\* C25: one update_display call clears the canvas (only when clear_first),
\* then calls render_text, then transmits exactly once, by display_fast
\* (hw_init_fast, then whitescreen_all_fast) when fast_refresh is true and by
\* display otherwise; no transmit begins before render_text has returned, and
\* none after render_text raised
C25_UpdateOrder ==
    \A w \in Workers :
        InUpdate(w) =>
            /\ IsPrefix(StepsDone(w), StatedSteps(srv_req[w]))
            /\ ~Raised(w) /\ srv_pc[w] \in {"ud_stamp", "ud_unlock"}
                  => srv_log[w] = StatedSteps(srv_req[w])
            /\ Raised(w) => srv_pc[w] = "ud_unlock" /\ in_call[w] = "none"
            /\ Transmitting(w) =>
                  /\ ~Raised(w)
                  /\ StepsDone(w) # <<>>
                  /\ \E i \in 1..Len(srv_log[w]) : srv_log[w][i] = "render_text"
                  /\ in_call[w] = IF srv_req[w].fast_refresh THEN "display_fast" ELSE "display"

\* an update with clear_first and fast_refresh has done all its steps
C25_Witness ==
    \E w \in Workers :
        /\ srv_pc[w] = "ud_stamp"
        /\ srv_log[w] = <<"clear", "render_text", "hw_init_fast", "whitescreen_all_fast">>

\* the positions of clean_gpio among the driver calls made so far
Cleanups == {i \in 1..Len(epd_log) : epd_log[i] = "clean_gpio"}

\* C27: in every script, on every way out of the driver session (the try
\* block ending, KeyboardInterrupt at any point, another exception),
\* clean_gpio is called exactly once and no driver call follows it
C27_CleanupOnceAndLast ==
    /\ Cleanups \subseteq {Len(epd_log)}
    /\ Cleanups # {} => run_pc = "exited"
    /\ run_pc = "exited" => Cleanups = {Len(epd_log)} /\ epd_log # <<>>

\* 04_clock was interrupted in a fast update, cleared the panel and left
C27_Witness ==
    /\ script = "04_clock" /\ run_pc = "exited"
    /\ epd_log = <<"hw_init_gui", "display", "hw_init_fast", "hw_init",
                   "whitescreen_white", "sleep", "clean_gpio">>

====
